---- MODULE Spec2Model ----
(***************************************************************************)
(* PicoSynth: a fixed-point polyphonic synthesizer.  The model follows     *)
(* src/src/picosynth.c: the Q15 arithmetic, the node graph of each voice   *)
(* with its two-pass evaluation, the envelope state machine, the one-pole  *)
(* filters, the usage mask, and the voice scheduler of picosynth_process.  *)
(*                                                                         *)
(* C integers are modelled by their values.  A right shift x >> k of a     *)
(* signed value is the floor division x \div 2^k; a product taken in a     *)
(* 64-bit intermediate is computed by mulshr15, which splits its left      *)
(* factor so that no partial product leaves 32 bits.                       *)
(***************************************************************************)
EXTENDS Integers, Sequences, FiniteSets, TLC

(***************************************************************************)
(* Program constants                                                       *)
(***************************************************************************)
Q15_MAX == 32767
Q15_MIN == -32768
SAMPLE_RATE == 11025
PICOSYNTH_BLOCK_SIZE == 32
BASE_OCTAVE == 8
NOTES_PER_OCTAVE == 12
PICOSYNTH_MAX_NODES == 32
LFSR_SEED_HI == 4660
LFSR_SEED_LO == 22136

INT32_MAX == 2147483647
INT32_MIN == -INT32_MAX - 1

\* ENVELOPE_STATE_MODE_BIT is bit 31 of the 32-bit state word: as an int32_t
\* the word is negative exactly when the bit is set.
ENVELOPE_PEAK == Q15_MAX * 16

(***************************************************************************)
(* Fixed-point primitives                                                  *)
(***************************************************************************)
Abs(x) == IF x < 0 THEN -x ELSE x

\* F applied to the value of x, which is computed once: the value of a local
\* variable of the code, against a definition, which stands for its text.
Bind(x, F(_)) == CHOOSE y \in {F(z) : z \in {x}} : TRUE

\* The conversion (q15_t) x of an integer that may not fit 16 bits.
ToInt16(x) == ((x + 32768) % 65536) - 32768

\* ((int64_t) a * b) >> 15 for a 32-bit a and a 16-bit b.
mulshr15(a, b) == (a \div 32768) * b + ((a % 32768) * b) \div 32768

q15_sat(x) ==
    IF x > Q15_MAX THEN Q15_MAX
    ELSE IF x < -32768 THEN Q15_MIN
    ELSE x

\* A product shifted by one bit less.
q15_mul_shr14(a, b) == ToInt16((a * b) \div 16384)

q15_mul(a, b) == ToInt16(mulshr15(a, b))

RECURSIVE pow_loop(_, _, _)
pow_loop(result, b, exp) ==
    IF exp = 0 THEN result
    ELSE Bind(<< IF exp % 2 = 1 THEN q15_mul(result, b) ELSE result,
                 IF exp \div 2 # 0 THEN q15_mul(b, b) ELSE b,
                 exp \div 2 >>,
              LAMBDA t : pow_loop(t[1], t[2], t[3]))

pow_q15(base, exp) == pow_loop(Q15_MAX, base, exp)

PICOSYNTH_ENV_MIN_RATIO_Q15 == (Q15_MAX + 5000) \div 10000
PICOSYNTH_ENV_MAX_RATIO_Q15 == (Q15_MAX * 9999 + 5000) \div 10000
PICOSYNTH_FAST_RELEASE_SAMPLES == SAMPLE_RATE \div 100

RECURSIVE exp_coeff_search(_, _, _, _)
exp_coeff_search(low, high, samples, target) ==
    IF low + 1 < high
    THEN Bind(IF pow_q15((low + high) \div 2, samples) > target
              THEN <<low, (low + high) \div 2>>
              ELSE <<(low + high) \div 2, high>>,
              LAMBDA lh : exp_coeff_search(lh[1], lh[2], samples, target))
    ELSE <<low, high>>

\* A choice that always takes the lower bound of the search.
env_calc_exp_coeff_low(samples, target_ratio) ==
    IF samples < 10 THEN Q15_MAX \div 2
    ELSE LET t1 == IF target_ratio < PICOSYNTH_ENV_MIN_RATIO_Q15
                   THEN PICOSYNTH_ENV_MIN_RATIO_Q15 ELSE target_ratio
             t  == IF t1 > PICOSYNTH_ENV_MAX_RATIO_Q15
                   THEN PICOSYNTH_ENV_MAX_RATIO_Q15 ELSE t1
         IN  exp_coeff_search(0, Q15_MAX, samples, t)[1]

env_calc_exp_coeff(samples, target_ratio) ==
    IF samples < 10 THEN Q15_MAX \div 2
    ELSE LET t1 == IF target_ratio < PICOSYNTH_ENV_MIN_RATIO_Q15
                   THEN PICOSYNTH_ENV_MIN_RATIO_Q15 ELSE target_ratio
             t  == IF t1 > PICOSYNTH_ENV_MAX_RATIO_Q15
                   THEN PICOSYNTH_ENV_MAX_RATIO_Q15 ELSE t1
         IN  Bind(exp_coeff_search(0, Q15_MAX, samples, t),
                  LAMBDA lh :
                      LET low == lh[1]
                          high == lh[2]
                          diff_low == Abs(t - pow_q15(low, samples))
                          diff_high == Abs(pow_q15(high, samples) - t)
                      IN  IF diff_low <= diff_high THEN low ELSE high)

\* The two derived coefficients of an envelope, <<decay_coeff, release_coeff>>.
\* (sus_level << 15) / peak is taken with the common factor 16 of sus_level
\* and peak cancelled, which leaves the quotient unchanged.
env_update_exp_coeffs(decay, sustain, release) ==
    LET sus_abs == IF sustain < 0 THEN -sustain ELSE sustain
        sus_level == sus_abs * 16
        peak == ENVELOPE_PEAK
        decay_span == IF peak > sus_level THEN peak - sus_level ELSE 1
        decay_samples == IF decay > 0
                         THEN (decay_span + decay - 1) \div decay ELSE 1
        target == ToInt16((sus_abs * 32768) \div Q15_MAX)
        rs == IF release > 0 THEN (peak + release - 1) \div release ELSE 1
        release_samples == IF rs < PICOSYNTH_FAST_RELEASE_SAMPLES
                           THEN PICOSYNTH_FAST_RELEASE_SAMPLES ELSE rs
    IN  << env_calc_exp_coeff(decay_samples, target),
           env_calc_exp_coeff(release_samples, PICOSYNTH_ENV_MIN_RATIO_Q15) >>

(***************************************************************************)
(* MIDI note to phase increment                                            *)
(***************************************************************************)
PICOSYNTH_HZ_TO_FREQ(hz) == (hz * Q15_MAX) \div SAMPLE_RATE

\* The table holds the integer parts of the frequencies of octave 8.
octave8_freq ==
    << PICOSYNTH_HZ_TO_FREQ(4186), PICOSYNTH_HZ_TO_FREQ(4434),
       PICOSYNTH_HZ_TO_FREQ(4698), PICOSYNTH_HZ_TO_FREQ(4978),
       PICOSYNTH_HZ_TO_FREQ(5274), PICOSYNTH_HZ_TO_FREQ(5587),
       PICOSYNTH_HZ_TO_FREQ(5919), PICOSYNTH_HZ_TO_FREQ(6271),
       PICOSYNTH_HZ_TO_FREQ(6644), PICOSYNTH_HZ_TO_FREQ(7040),
       PICOSYNTH_HZ_TO_FREQ(7458), PICOSYNTH_HZ_TO_FREQ(7902) >>

\* A conversion that looks the note up in octave 8 and does not shift.
picosynth_midi_to_freq_octave8(note0) ==
    octave8_freq[(note0 % NOTES_PER_OCTAVE) + 1]

\* A conversion whose left shift is cast to q15_t without saturation.
picosynth_midi_to_freq_wraps(note0) ==
    LET note == IF note0 > 119 THEN 119 ELSE note0
        octave == note \div NOTES_PER_OCTAVE
        idx == note % NOTES_PER_OCTAVE
        shift == BASE_OCTAVE - octave
    IN  IF shift >= 0
        THEN octave8_freq[idx + 1] \div (2 ^ shift)
        ELSE ToInt16(octave8_freq[idx + 1] * (2 ^ (-shift)))

picosynth_midi_to_freq(note0) ==
    LET note == IF note0 > 119 THEN 119 ELSE note0
        octave == note \div NOTES_PER_OCTAVE
        idx == note % NOTES_PER_OCTAVE
        shift == BASE_OCTAVE - octave
    IN  IF shift >= 0
        THEN octave8_freq[idx + 1] \div (2 ^ shift)
        ELSE q15_sat(octave8_freq[idx + 1] * (2 ^ (-shift)))

(***************************************************************************)
(* Waveform generators                                                     *)
(***************************************************************************)
\* Quarter-wave table of the sine, 16 segments, linearly interpolated.
SineQuarter ==
    << 0, 3212, 6393, 9512, 12539, 15446, 18204, 20787, 23170,
       25329, 27245, 28898, 30273, 31356, 32137, 32609, 32767 >>

picosynth_sine_impl(phase) ==
    LET p == phase % 32768
        quadrant == p \div 8192
        pos0 == p % 8192
        pos == IF quadrant % 2 = 1 THEN 8192 - pos0 ELSE pos0
        idx == pos \div 512
        frac == pos % 512
        a == SineQuarter[idx + 1]
        b == IF idx < 16 THEN SineQuarter[idx + 2] ELSE a
        mag == a + ((b - a) * frac) \div 512
    IN  IF quadrant >= 2 THEN -mag ELSE mag

picosynth_wave_saw(phase) == ToInt16(phase * 2 - Q15_MAX)

picosynth_wave_square(phase) ==
    IF phase < Q15_MAX \div 2 THEN Q15_MAX ELSE Q15_MIN

picosynth_wave_triangle(phase) ==
    LET r0 == phase * 2
        r == IF r0 > Q15_MAX THEN Q15_MAX - (r0 - Q15_MAX) ELSE r0
    IN  q15_sat(r * 2 - Q15_MAX)

picosynth_wave_falling(phase) == ToInt16(Q15_MAX - phase * 2)

picosynth_wave_exp(phase) ==
    LET p0 == ToInt16(Q15_MAX - phase)
        p1 == ToInt16((p0 * p0) \div 32768)
    IN  ToInt16((p1 * p1) \div 32768)

picosynth_wave_sine(phase) == picosynth_sine_impl(phase)

\* The 32-bit LFSR word is kept as its 32 bits, bit 0 first.
XorBit(a, b) == IF a = b THEN 0 ELSE 1
LfsrShl(x, k) == [i \in 0..31 |-> IF i >= k THEN x[i - k] ELSE 0]
LfsrShr(x, k) == [i \in 0..31 |-> IF i + k <= 31 THEN x[i + k] ELSE 0]
LfsrXor(x, y) == [i \in 0..31 |-> XorBit(x[i], y[i])]

lfsr_step(seed) ==
    LET s1 == LfsrXor(seed, LfsrShl(seed, 13))
        s2 == LfsrXor(s1, LfsrShr(s1, 17))
    IN  LfsrXor(s2, LfsrShl(s2, 5))

RECURSIVE BitsValue(_, _, _)
BitsValue(x, from, n) ==
    IF n = 0 THEN 0 ELSE x[from] + 2 * BitsValue(x, from + 1, n - 1)

RECURSIVE ValueBits(_, _)
ValueBits(val, n) ==
    IF n = 0 THEN << >> ELSE <<val % 2>> \o ValueBits(val \div 2, n - 1)

\* (q15_t) (lfsr_seed >> 16)
lfsr_out(seed) == ToInt16(BitsValue(seed, 16, 16))

LfsrOfHalves(hi, lo) ==
    LET b == ValueBits(lo, 16) \o ValueBits(hi, 16)
    IN  [i \in 0..31 |-> b[i + 1]]

lfsr_seed_init == LfsrOfHalves(LFSR_SEED_HI, LFSR_SEED_LO)

\* <<sample, seed after the call>> of the generator named w.
wave_call(w, phase, seed) ==
    CASE w = "saw" -> <<picosynth_wave_saw(phase), seed>>
      [] w = "square" -> <<picosynth_wave_square(phase), seed>>
      [] w = "triangle" -> <<picosynth_wave_triangle(phase), seed>>
      [] w = "falling" -> <<picosynth_wave_falling(phase), seed>>
      [] w = "exp" -> <<picosynth_wave_exp(phase), seed>>
      [] w = "sine" -> <<picosynth_wave_sine(phase), seed>>
      [] w = "noise" -> LET s == lfsr_step(seed) IN <<lfsr_out(s), s>>

soft_clip(x) ==
    LET sign == IF x < 0 THEN -1 ELSE 1
        abs_x == IF x < 0 THEN -x ELSE x
        a0 == abs_x \div 8
        a == IF a0 > Q15_MAX \div 4 THEN Q15_MAX \div 4 ELSE a0
    IN  q15_sat(picosynth_sine_impl(a) * sign)

(***************************************************************************)
(* Nodes and voices                                                        *)
(*                                                                         *)
(* A reference (a pointer to a q15_t) is NullRef, the out of node i of the  *)
(* same voice, the voice's freq cell, or a cell outside the synthesizer    *)
(* holding a fixed value.  The payload union of a node is modelled by one  *)
(* field per member: every reader selects the member by the node's type,   *)
(* and every initializer clears the whole node first.                      *)
(***************************************************************************)
NullRef == <<"null", 0>>
NodeRef(i) == <<"node", i>>
FreqRef == <<"freq", 0>>
ExtRef(val) == <<"ext", val>>

NodeZero ==
    [ type |-> "NONE", state |-> 0, gain |-> NullRef, out |-> 0,
      freq |-> NullRef, detune |-> NullRef, wave |-> "null",
      attack |-> 0, decay |-> 0, sustain |-> 0, release |-> 0,
      decay_coeff |-> 0, release_coeff |-> 0,
      block_rate |-> 0, block_counter |-> 0,
      in |-> NullRef, accum |-> 0, coeff |-> 0, coeff_target |-> 0,
      mix_in |-> <<NullRef, NullRef, NullRef>> ]

VoiceZero(nodes) ==
    [ note |-> 0, gate |-> 0, out_idx |-> 0, node_usage_mask |-> 0,
      freq |-> 0, n_nodes |-> nodes,
      nodes |-> [i \in 0..(nodes - 1) |-> NodeZero] ]

\* picosynth_create(voices, nodes) when every allocation succeeds.
picosynth_create(voices, nodes) ==
    [ num_voices |-> voices, voice_enable_mask |-> 0,
      voices |-> [vi \in 0..(voices - 1) |-> VoiceZero(nodes)] ]

\* A pointer to a voice is modelled by the index of the voice, a pointer to
\* a node by the index of the node in its voice, and NULL by NullPtr.
NullPtr == -1

\* The NULL that picosynth_create returns in place of a synthesizer.
NullSynth == [null |-> TRUE]

\* The block the j-th calloc of picosynth_create asks for: the synthesizer,
\* the array of voices, then the node array of each voice in turn.
CreateBlock(j) ==
    IF j = 1 THEN <<"synth", 0>>
    ELSE IF j = 2 THEN <<"voices", 0>>
    ELSE <<"nodes", j - 3>>

\* The number of calloc calls of a picosynth_create that succeeds.
CreateCallocs(voices) == 2 + voices

\* A picosynth_create that returns NULL without freeing the node arrays it
\* was given.
picosynth_create_alloc_leaks(voices, nodes, fail) ==
    IF nodes > PICOSYNTH_MAX_NODES THEN [s |-> NullSynth, blocks |-> {}]
    ELSE IF fail \in 1..CreateCallocs(voices)
    THEN LET given == {CreateBlock(j) : j \in 1..(fail - 1)}
             freed == IF fail = 1 THEN {}
                      ELSE IF fail = 2 THEN {<<"synth", 0>>}
                      ELSE {<<"voices", 0>>, <<"synth", 0>>}
         IN  [s |-> NullSynth, blocks |-> given \ freed]
    ELSE [s |-> picosynth_create(voices, nodes),
          blocks |-> {CreateBlock(j) : j \in 1..CreateCallocs(voices)}]

\* picosynth_create where the fail-th calloc is the first to return NULL
\* (none does when fail is 0): the pointer returned, and the blocks the call
\* leaves allocated.  No calloc is made for more than PICOSYNTH_MAX_NODES
\* nodes.
picosynth_create_alloc(voices, nodes, fail) ==
    IF nodes > PICOSYNTH_MAX_NODES THEN [s |-> NullSynth, blocks |-> {}]
    ELSE IF fail \in 1..CreateCallocs(voices)
    THEN LET given == {CreateBlock(j) : j \in 1..(fail - 1)}
             freed == IF fail = 1 THEN {}
                      ELSE IF fail = 2 THEN {<<"synth", 0>>}
                      ELSE {<<"nodes", j>> : j \in 0..(fail - 4)}
                           \cup {<<"voices", 0>>, <<"synth", 0>>}
         IN  [s |-> NullSynth, blocks |-> given \ freed]
    ELSE [s |-> picosynth_create(voices, nodes),
          blocks |-> {CreateBlock(j) : j \in 1..CreateCallocs(voices)}]

\* picosynth_destroy(s): the blocks freed.
picosynth_destroy(s) ==
    IF s = NullSynth THEN {}
    ELSE {<<"nodes", i>> : i \in 0..(s.num_voices - 1)}
         \cup {<<"voices", 0>>, <<"synth", 0>>}

picosynth_get_voice(s, idx) ==
    IF idx >= s.num_voices THEN NullPtr ELSE idx

\* picosynth_voice_get_node(v, idx) for the voice pointer vp.
picosynth_voice_get_node(s, vp, idx) ==
    IF vp = NullPtr \/ idx >= s.voices[vp].n_nodes THEN NullPtr ELSE idx

TestBit(mask, i) == (mask \div (2 ^ i)) % 2 = 1
SetBit(mask, i) == IF TestBit(mask, i) THEN mask ELSE mask + 2 ^ i
ClearBit(mask, i) == IF TestBit(mask, i) THEN mask - 2 ^ i ELSE mask

\* state & ENVELOPE_STATE_VALUE_MASK, and the test of ENVELOPE_STATE_MODE_BIT.
EnvValue(state) == IF state < 0 THEN (state + INT32_MAX) + 1 ELSE state
EnvMode(state) == state < 0
\* (int32_t) ((uint32_t) val | mode)
EnvPack(val, mode) ==
    IF mode /\ val >= 0 THEN (val - INT32_MAX) - 1 ELSE val

\* The value read through a reference that is not null.
Deref(v, ref) ==
    CASE ref[1] = "node" -> v.nodes[ref[2]].out
      [] ref[1] = "freq" -> v.freq
      [] ref[1] = "ext" -> ref[2]

\* A note-on that leaves the charge of the filters in place.
voice_note_on_keeps_accum(v, note) ==
    [ v EXCEPT
        !.note = note,
        !.gate = 1,
        !.freq = picosynth_midi_to_freq(note),
        !.nodes = [i \in 0..(v.n_nodes - 1) |->
            LET n == v.nodes[i]
                n1 == [n EXCEPT !.state = 0, !.out = 0]
                n2 == IF n.type \in {"LP", "HP"}
                      THEN [n1 EXCEPT !.coeff = n.coeff_target]
                      ELSE n1
            IN  IF n.type = "ENV"
                THEN [n2 EXCEPT !.block_counter = 0, !.block_rate = 0]
                ELSE n2 ] ]

voice_note_on(v, note) ==
    [ v EXCEPT
        !.note = note,
        !.gate = 1,
        !.freq = picosynth_midi_to_freq(note),
        !.nodes = [i \in 0..(v.n_nodes - 1) |->
            LET n == v.nodes[i]
                n1 == [n EXCEPT !.state = 0, !.out = 0]
                n2 == IF n.type \in {"LP", "HP"}
                      THEN [n1 EXCEPT !.accum = 0, !.coeff = n.coeff_target]
                      ELSE n1
            IN  IF n.type = "ENV"
                THEN [n2 EXCEPT !.block_counter = 0, !.block_rate = 0]
                ELSE n2 ] ]

\* A note-off that lets the envelopes finish their block.
voice_note_off_keeps_block(v) == [v EXCEPT !.gate = 0]

voice_note_off(v) ==
    [ v EXCEPT
        !.gate = 0,
        !.nodes = [i \in 0..(v.n_nodes - 1) |->
            IF v.nodes[i].type = "ENV"
            THEN [v.nodes[i] EXCEPT !.block_counter = 0]
            ELSE v.nodes[i] ] ]

\* The node whose out field ref points to, or -1.
ptr_to_node_idx(v, ref) ==
    IF ref[1] = "node" /\ ref[2] < v.n_nodes THEN ref[2] ELSE -1

\* A trace that follows the gain input only.
NodeDeps_gain_only(n) == <<n.gain>>

\* The references mark_node_used follows from node n, in the order it does.
NodeDeps(n) ==
    <<n.gain>> \o
    ( CASE n.type = "OSC" -> <<n.freq, n.detune>>
        [] n.type \in {"LP", "HP"} -> <<n.in>>
        [] n.type = "MIX" -> n.mix_in
        [] OTHER -> << >> )

DepIdx(v, n) ==
    LET d == NodeDeps(n)
    IN  SelectSeq([k \in 1..Len(d) |-> ptr_to_node_idx(v, d[k])],
                  LAMBDA x : x >= 0)

\* mark_node_used, its recursion unfolded into the stack of calls still to
\* make: the head is the call in progress, the dependencies of a newly marked
\* node are called before the rest.  marked lists the nodes in the order
\* their bits are set.  fuel bounds the number of calls; done is FALSE when
\* the trace has not ended within it.
RECURSIVE mark_loop(_, _, _, _, _)
mark_loop(v, mask, stack, fuel, marked) ==
    IF stack = << >> THEN [mask |-> mask, done |-> TRUE, marked |-> marked]
    ELSE IF fuel = 0 THEN [mask |-> mask, done |-> FALSE, marked |-> marked]
    ELSE LET idx == Head(stack)
             rest == Tail(stack)
         IN  Bind(IF idx < 0 \/ idx >= v.n_nodes THEN <<mask, rest, marked>>
                  ELSE IF idx >= 8 THEN <<0, rest, marked>>
                  ELSE IF TestBit(mask, idx) THEN <<mask, rest, marked>>
                  ELSE <<SetBit(mask, idx), DepIdx(v, v.nodes[idx]) \o rest,
                         Append(marked, idx)>>,
                  LAMBDA t : mark_loop(v, t[1], t[2], fuel - 1, t[3]))

MarkFuel == 32

mark_node_used(v, mask, idx) == mark_loop(v, mask, <<idx>>, MarkFuel, << >>)

voice_update_usage_mask(v) ==
    IF v.out_idx < v.n_nodes
    THEN [v EXCEPT !.node_usage_mask = mark_node_used(v, 0, v.out_idx).mask]
    ELSE [v EXCEPT !.node_usage_mask = 0]

\* A voice_set_out that takes any index.
picosynth_voice_set_out_any_idx(v, idx) ==
    voice_update_usage_mask([v EXCEPT !.out_idx = idx])

picosynth_voice_set_out(v, idx) ==
    IF idx < v.n_nodes
    THEN voice_update_usage_mask([v EXCEPT !.out_idx = idx])
    ELSE v

\* Whether picosynth_voice_set_out(v, idx) returns: the recursion of
\* mark_node_used comes to an end.  When it does not, the call exhausts the
\* stack and the program ends there.
set_out_returns(v, idx) ==
    idx >= v.n_nodes \/ mark_node_used([v EXCEPT !.out_idx = idx], 0, idx).done

\* A note-on that does not enable the voice.
picosynth_note_on_no_enable(s, voice, note) ==
    IF voice < s.num_voices
    THEN [s EXCEPT !.voices[voice] = voice_note_on(s.voices[voice], note)]
    ELSE s

picosynth_note_on(s, voice, note) ==
    IF voice < s.num_voices
    THEN [ s EXCEPT
             !.voices[voice] = voice_note_on(s.voices[voice], note),
             !.voice_enable_mask =
                 IF voice < 16 THEN SetBit(@, voice) ELSE @ ]
    ELSE s

\* A note-off that releases every voice.
picosynth_note_off_all(s, voice) ==
    IF voice < s.num_voices
    THEN [s EXCEPT !.voices = [vi \in DOMAIN s.voices |->
                                  voice_note_off(s.voices[vi])]]
    ELSE s

picosynth_note_off(s, voice) ==
    IF voice < s.num_voices
    THEN [s EXCEPT !.voices[voice] = voice_note_off(s.voices[voice])]
    ELSE s

(***************************************************************************)
(* Node initializers: each returns the node memset to zero and filled in.  *)
(***************************************************************************)
picosynth_init_osc(gain, freq, wave) ==
    [NodeZero EXCEPT !.gain = gain, !.type = "OSC", !.freq = freq,
                     !.wave = wave]

picosynth_init_env(gain, attack, decay, sustain, release) ==
    LET c == env_update_exp_coeffs(decay, sustain, release)
    IN  [NodeZero EXCEPT !.gain = gain, !.type = "ENV", !.attack = attack,
                         !.decay = decay, !.sustain = sustain,
                         !.release = release,
                         !.decay_coeff = c[1], !.release_coeff = c[2]]

picosynth_init_lp(gain, in, coeff) ==
    [NodeZero EXCEPT !.gain = gain, !.type = "LP", !.in = in,
                     !.coeff = coeff, !.coeff_target = coeff]

picosynth_init_hp(gain, in, coeff) ==
    [NodeZero EXCEPT !.gain = gain, !.type = "HP", !.in = in,
                     !.coeff = coeff, !.coeff_target = coeff]

picosynth_init_mix(gain, in1, in2, in3) ==
    [NodeZero EXCEPT !.gain = gain, !.type = "MIX",
                     !.mix_in = <<in1, in2, in3>>]

\* A filter_set_coeff that does not look at the type of the node.
picosynth_filter_set_coeff_any_type(n, coeff) ==
    [n EXCEPT !.coeff_target = q15_sat(coeff)]

\* A filter_set_coeff that also loads the live coefficient.
picosynth_filter_set_coeff_sets_live(n, coeff) ==
    IF n.type # "LP" /\ n.type # "HP" THEN n
    ELSE [n EXCEPT !.coeff_target = q15_sat(coeff), !.coeff = q15_sat(coeff)]

picosynth_filter_set_coeff(n, coeff) ==
    IF n.type # "LP" /\ n.type # "HP" THEN n
    ELSE [n EXCEPT !.coeff_target = q15_sat(coeff)]

(***************************************************************************)
(* picosynth_process                                                       *)
(***************************************************************************)
\* Loops that run over all the slots of the voice, unused ones included.
PrefixLen_all(v, i) == v.n_nodes

\* The number of nodes the loops of both passes visit: they stop at the
\* first slot of type NONE.
RECURSIVE PrefixLen(_, _)
PrefixLen(v, i) ==
    IF i < v.n_nodes /\ v.nodes[i].type # "NONE"
    THEN PrefixLen(v, i + 1) ELSE i

\* mask && !(mask & (1u << i))
MaskSkips(mask, i) == mask # 0 /\ ~TestBit(mask, i)

env_output(n) ==
    LET t0 == EnvValue(n.state) \div 16
        t1 == (t0 * t0) \div 32768
    IN  IF n.sustain < 0 THEN -t1 ELSE t1

\* Pass 1 for one node: <<tmp[i], seed after the call>>.
node_output(v, n, seed) ==
    LET raw ==
          CASE n.type = "OSC" -> wave_call(n.wave, n.state % 32768, seed)
            [] n.type = "ENV" -> <<env_output(n), seed>>
            [] n.type = "LP" -> <<mulshr15(n.accum, n.coeff), seed>>
            [] n.type = "HP" ->
                 << IF n.in # NullRef
                    THEN Deref(v, n.in) - mulshr15(n.accum, n.coeff)
                    ELSE 0, seed >>
            [] n.type = "MIX" ->
                 << (IF n.mix_in[1] # NullRef THEN Deref(v, n.mix_in[1]) ELSE 0)
                  + (IF n.mix_in[2] # NullRef THEN Deref(v, n.mix_in[2]) ELSE 0)
                  + (IF n.mix_in[3] # NullRef THEN Deref(v, n.mix_in[3]) ELSE 0),
                    seed >>
            [] OTHER -> <<0, seed>>
    IN  IF n.gain # NullRef
        THEN <<mulshr15(raw[1], Deref(v, n.gain)), raw[2]>>
        ELSE raw

\* Pass 1: tmp[0..limit-1] as a sequence, and the seed after the pass.
RECURSIVE pass1(_, _, _, _, _)
pass1(v, i, limit, tmp, seed) ==
    IF i >= limit THEN <<tmp, seed>>
    ELSE IF MaskSkips(v.node_usage_mask, i)
    THEN pass1(v, i + 1, limit, Append(tmp, 0), seed)
    ELSE Bind(node_output(v, v.nodes[i], seed),
              LAMBDA r : pass1(v, i + 1, limit, Append(tmp, r[1]), r[2]))

\* An oscillator whose phase is not wrapped to 15 bits.
osc_update_no_wrap(v, n) ==
    LET s1 == IF n.freq # NullRef THEN n.state + Deref(v, n.freq) ELSE n.state
        s2 == IF n.detune # NullRef THEN s1 + Deref(v, n.detune) ELSE s1
    IN  [n EXCEPT !.state = s2]

\* An oscillator whose phase does not advance.
osc_update_idle(v, n) == n

osc_update(v, n) ==
    LET s1 == IF n.freq # NullRef THEN n.state + Deref(v, n.freq) ELSE n.state
        s2 == IF n.detune # NullRef THEN s1 + Deref(v, n.detune) ELSE s1
    IN  [n EXCEPT !.state = s2 % 32768]

\* A release that holds the value.
env_release_holds(val, release_coeff) == val

\* The release of an envelope: one sample of exponential decay, with a
\* floor under which the value is 0.
env_release(val, release_coeff) ==
    LET val1 == mulshr15(val, release_coeff)
    IN  IF val1 < 16 THEN 0 ELSE val1

\* q15_t sus_abs = sustain < 0 ? -sustain : sustain: the negation is taken
\* in int and converted back to 16 bits.
env_sus_abs(sustain) == ToInt16(IF sustain < 0 THEN -sustain ELSE sustain)

\* An envelope that is not updated: its value never rises.
env_update_idle(v, n) == n

env_update(v, n) ==
    LET reload == n.block_counter = 0
        rate == IF ~reload THEN n.block_rate
                ELSE IF v.gate = 0 THEN -n.release
                ELSE IF EnvMode(n.state) THEN -n.decay
                ELSE n.attack
        bc == (IF reload THEN PICOSYNTH_BLOCK_SIZE ELSE n.block_counter) - 1
        val == EnvValue(n.state)
        n1 == [n EXCEPT !.block_rate = rate, !.block_counter = bc]
    IN  IF v.gate = 1
        THEN IF EnvMode(n.state)
             THEN LET sus_abs == env_sus_abs(n.sustain)
                      sus_level == sus_abs * 16
                      delta == val - sus_level
                      val1 == sus_level + mulshr15(delta, n.decay_coeff)
                      val2 == IF val1 < sus_level THEN sus_level ELSE val1
                  IN  [n1 EXCEPT !.state = EnvPack(val2, TRUE)]
             ELSE LET val1 == val + rate
                  IN  IF val1 >= ENVELOPE_PEAK
                      THEN [n1 EXCEPT !.state = EnvPack(ENVELOPE_PEAK, TRUE),
                                      !.block_counter = 0]
                      ELSE [n1 EXCEPT !.state = EnvPack(val1, FALSE)]
        ELSE [n1 EXCEPT !.state = env_release(val, n.release_coeff)]

\* A step that is left at 0 when the shift gives 0.
coeff_step_no_floor(coeff_delta) == coeff_delta \div 256

\* The step of the coefficient smoothing, for coeff_delta # 0.
coeff_step(coeff_delta) ==
    LET step == coeff_delta \div 256
    IN  IF step = 0 THEN (IF coeff_delta > 0 THEN 1 ELSE -1) ELSE step

\* An accumulator charged with the input and not with its distance to the
\* output.
filter_update_in_only(v, n) ==
    [n EXCEPT !.accum = n.accum
                          + (IF n.in # NullRef THEN Deref(v, n.in) ELSE 0)]

\* A filter that is not updated: its accumulator is never charged.
filter_update_idle(v, n) == n

filter_update(v, n) ==
    LET coeff_delta == n.coeff_target - n.coeff
        step == coeff_step(coeff_delta)
        coeff == IF coeff_delta # 0 THEN q15_sat(n.coeff + step) ELSE n.coeff
        input_val == IF n.in # NullRef THEN Deref(v, n.in) ELSE 0
        delta == input_val - n.out
        acc == IF delta > 0 /\ n.accum > INT32_MAX - delta THEN INT32_MAX
               ELSE IF delta < 0 /\ n.accum < INT32_MIN - delta THEN INT32_MIN
               ELSE n.accum + delta
    IN  [n EXCEPT !.coeff = coeff, !.accum = acc]

\* Pass 2 for node i: commit its output, then update its state.  The voice
\* read through references already holds the outputs committed for the
\* nodes before i, and the output of node i itself.
node_update(v, i, t) ==
    Bind([v EXCEPT !.nodes[i].out = q15_sat(t)],
         LAMBDA v1 :
             LET n == v1.nodes[i]
             IN  [v1 EXCEPT !.nodes[i] =
                     CASE n.type = "OSC" -> osc_update(v1, n)
                       [] n.type = "ENV" -> env_update(v1, n)
                       [] n.type \in {"LP", "HP"} -> filter_update(v1, n)
                       [] OTHER -> n])

RECURSIVE pass2(_, _, _, _)
pass2(v, i, limit, tmp) ==
    IF i >= limit THEN v
    ELSE IF MaskSkips(v.node_usage_mask, i)
    THEN pass2(v, i + 1, limit, tmp)
    ELSE Bind(node_update(v, i, tmp[i + 1]),
              LAMBDA v1 : pass2(v1, i + 1, limit, tmp))

\* Both passes over one voice: the voice and the seed after them.
voice_eval(v, seed) ==
    LET limit == PrefixLen(v, 0)
    IN  Bind(pass1(v, 0, limit, << >>, seed),
             LAMBDA p1 : [v |-> pass2(v, 0, limit, p1[1]), seed |-> p1[2]])

\* The nodes of v both passes evaluate.
EvaluatedNodes(v) ==
    {i \in 0..(PrefixLen(v, 0) - 1) : ~MaskSkips(v.node_usage_mask, i)}

\* A test that finds no voice silent.
VoiceSilent_never(v) == FALSE

\* A test that finds a voice silent only if it has an envelope.
VoiceSilent_needs_env(v) ==
    /\ \E i \in 0..(v.n_nodes - 1) : v.nodes[i].type = "ENV"
    /\ \A i \in 0..(v.n_nodes - 1) :
          ~(v.nodes[i].type = "ENV" /\ EnvValue(v.nodes[i].state) # 0)

\* The test that ends a voice: no envelope node holds a value.
VoiceSilent(v) ==
    \A i \in 0..(v.n_nodes - 1) :
        ~(v.nodes[i].type = "ENV" /\ EnvValue(v.nodes[i].state) # 0)

\* v->nodes[v->out_idx].out; a voice without nodes has no such element, and
\* the read yields oob, whatever lies behind its empty array.
VoiceOut(v, oob) ==
    IF v.out_idx < v.n_nodes THEN v.nodes[v.out_idx].out ELSE oob

\* A loop that skips no voice.
voice_skipped_never(s, vi) == FALSE

\* vi < 16 && !(s->voice_enable_mask & (1u << vi)): the voice is passed over.
voice_skipped(s, vi) == vi < 16 /\ ~TestBit(s.voice_enable_mask, vi)

\* The loop over the voices: st holds the synthesizer, the running sum, the
\* seed, and the voices evaluated so far.
RECURSIVE voices_loop(_, _, _)
voices_loop(st, vi, oob) ==
    IF vi >= st.s.num_voices THEN st
    ELSE IF voice_skipped(st.s, vi)
    THEN voices_loop(st, vi + 1, oob)
    ELSE Bind(voice_eval(st.s.voices[vi], st.seed),
              LAMBDA r :
                  LET v == r.v
                      off == vi < 16 /\ v.gate = 0 /\ VoiceSilent(v)
                  IN  Bind([s |-> [st.s EXCEPT
                                     !.voices[vi] = v,
                                     !.voice_enable_mask =
                                         IF off THEN ClearBit(@, vi) ELSE @],
                            out |-> st.out + VoiceOut(v, oob),
                            seed |-> r.seed,
                            ran |-> st.ran \cup {vi}],
                           LAMBDA st1 : voices_loop(st1, vi + 1, oob)))

\* The sum of the voices returned as it is.
MixDown_unscaled(out, num_voices) == out

\* A scaling that leaves the sum of several voices as it is.
mix_scale_no_gain(out, num_voices) == out

\* A gain rounded up instead of down.
mix_scale_gain_up(out, num_voices) ==
    IF num_voices > 1
    THEN mulshr15(out, Q15_MAX \div num_voices + 1)
    ELSE out

\* The sum of the voices scaled by gain = Q15_MAX / num_voices.
mix_scale(out, num_voices) ==
    IF num_voices > 1
    THEN mulshr15(out, Q15_MAX \div num_voices)
    ELSE out

\* The tail of picosynth_process: scale the sum of the voices, clip it.
MixDown(out, num_voices) == soft_clip(mix_scale(out, num_voices))

\* The largest int32_t whose square is an int32_t.
SQRT_INT32_MAX == 46340

\* The call would square, in pass 1, an envelope value that does not fit:
\* tmp[i] * tmp[i] overflows int32_t, and the behaviour of the call is
\* undefined.
process_undefined(s) ==
    \E vi \in 0..(s.num_voices - 1) :
        /\ vi >= 16 \/ TestBit(s.voice_enable_mask, vi)
        /\ \E i \in EvaluatedNodes(s.voices[vi]) :
             /\ s.voices[vi].nodes[i].type = "ENV"
             /\ EnvValue(s.voices[vi].nodes[i].state) \div 16 > SQRT_INT32_MAX

\* picosynth_process: the synthesizer and seed after the call, the sample
\* returned, and the voices the call evaluated.
picosynth_process(s, seed, oob) ==
    Bind(voices_loop([s |-> s, out |-> 0, seed |-> seed, ran |-> {}],
                     0, oob),
         LAMBDA st : [s |-> st.s, seed |-> st.seed, ran |-> st.ran,
                      ret |-> MixDown(st.out, s.num_voices)])

(***************************************************************************)
(* State                                                                   *)
(*                                                                         *)
(* synth and lfsr_seed are the program's state; ret is the sample the last *)
(* picosynth_process returned.  The others record the history the          *)
(* properties speak of: last is the last call made, ran the voices the     *)
(* last picosynth_process evaluated, noted the voices that have received a *)
(* note-on, tracked the voices below 16 that have received a note-on and   *)
(* have not since been found released and silent by picosynth_process,     *)
(* stale the voices wired since their last accepted voice_set_out, calls   *)
(* the number of calls counted, and tick the parity of the number of       *)
(* samples drawn by the calls of picosynth_process that are not counted.   *)
(* last.op is "stack_overflow" once a call has exhausted the stack, and    *)
(* "undefined" once a call has overflowed a signed product.  Where         *)
(* a function of the arithmetic is applied on its own, operand is its Q15  *)
(* argument and result records the other argument and the value returned.  *)
(* heap is the set of blocks calloc has handed out and free has not taken  *)
(* back.  observed is what a listener has noted of the stream of samples,  *)
(* where a specification has one.                                          *)
(***************************************************************************)
VARIABLES synth, lfsr_seed, ret, last, ran, noted, tracked, stale, calls,
          tick, operand, result, heap, observed

vars ==
    <<synth, lfsr_seed, ret, last, ran, noted, tracked, stale, calls, tick,
      operand, result, heap, observed>>

\* No function of the arithmetic has been applied to operand yet.
NoVal == [by |-> 0, is |-> 0, done |-> FALSE]

\* Nobody listens.
NoObs == [on |-> FALSE]

MaxCalls == 6

Call(op, voice, arg) == [op |-> op, voice |-> voice, arg |-> arg]

InitWith(voices, nodes) ==
    /\ synth = picosynth_create(voices, nodes)
    /\ lfsr_seed = lfsr_seed_init
    /\ ret = 0
    /\ last = Call("create", voices, nodes)
    /\ ran = {}
    /\ noted = {}
    /\ tracked = {}
    /\ stale = 0..(voices - 1)
    /\ calls = 0
    /\ tick = 0
    /\ operand = 0
    /\ result = NoVal
    /\ heap = picosynth_create_alloc(voices, nodes, 0).blocks
    /\ observed = NoObs

\* The program runs until a call exhausts the stack or has no defined
\* behaviour.
Alive == last.op \notin {"stack_overflow", "undefined"}

Budget == Alive /\ calls < MaxCalls

\* A write that fills in the node without clearing it first: the output and
\* the state word of the node stay.
WriteNode_no_memset(op, vi, i, n) ==
    /\ Budget
    /\ vi < synth.num_voices
    /\ i < synth.voices[vi].n_nodes
    /\ synth' = [synth EXCEPT !.voices[vi].nodes[i] =
                     [n EXCEPT !.out = synth.voices[vi].nodes[i].out,
                               !.state = synth.voices[vi].nodes[i].state]]
    /\ last' = Call(op, vi, i)
    /\ stale' = stale \cup {vi}
    /\ calls' = calls + 1
    /\ UNCHANGED <<lfsr_seed, ret, ran, noted, tracked, tick, operand,
                   result, heap, observed>>

\* A call that writes node i of voice vi through the pointer that
\* picosynth_voice_get_node returned.
WriteNode(op, vi, i, n) ==
    /\ Budget
    /\ vi < synth.num_voices
    /\ i < synth.voices[vi].n_nodes
    /\ synth' = [synth EXCEPT !.voices[vi].nodes[i] = n]
    /\ last' = Call(op, vi, i)
    /\ stale' = stale \cup {vi}
    /\ calls' = calls + 1
    /\ UNCHANGED <<lfsr_seed, ret, ran, noted, tracked, tick, operand,
                   result, heap, observed>>

InitOsc(vi, i, gain, freq, wave) ==
    WriteNode("init_osc", vi, i, picosynth_init_osc(gain, freq, wave))

InitEnv(vi, i, gain, attack, decay, sustain, release) ==
    WriteNode("init_env", vi, i,
              picosynth_init_env(gain, attack, decay, sustain, release))

InitLp(vi, i, gain, in, coeff) ==
    WriteNode("init_lp", vi, i, picosynth_init_lp(gain, in, coeff))

InitHp(vi, i, gain, in, coeff) ==
    WriteNode("init_hp", vi, i, picosynth_init_hp(gain, in, coeff))

InitMix(vi, i, gain, in1, in2, in3) ==
    WriteNode("init_mix", vi, i, picosynth_init_mix(gain, in1, in2, in3))

\* n->osc.detune = ref, assigned by the caller after picosynth_init_osc.
SetDetune(vi, i, ref) ==
    /\ vi < synth.num_voices
    /\ i < synth.voices[vi].n_nodes
    /\ synth.voices[vi].nodes[i].type = "OSC"
    /\ WriteNode("set_detune", vi, i,
                 [synth.voices[vi].nodes[i] EXCEPT !.detune = ref])

\* picosynth_filter_set_coeff(picosynth_voice_get_node(
\*     picosynth_get_voice(s, vi), i), coeff): a null node is left alone.
\* The call is recorded with the node index and the coefficient.
FilterSetCoeff(vi, i, coeff) ==
    /\ Budget
    /\ \E vp \in {picosynth_get_voice(synth, vi)} :
         \E np \in {picosynth_voice_get_node(synth, vp, i)} :
             synth' = IF np = NullPtr THEN synth
                      ELSE [synth EXCEPT !.voices[vp].nodes[np] =
                               picosynth_filter_set_coeff(@, coeff)]
    /\ last' = Call("filter_set_coeff", vi, <<i, coeff>>)
    /\ calls' = calls + 1
    /\ UNCHANGED <<lfsr_seed, ret, ran, noted, tracked, stale, tick, operand,
                   result, heap, observed>>

\* picosynth_voice_set_out(picosynth_get_voice(s, vi), idx): a null voice is
\* left alone.
SetOut(vi, idx) ==
    /\ Budget
    /\ \E vp \in {picosynth_get_voice(synth, vi)} :
         IF vp = NullPtr
         THEN /\ synth' = synth
              /\ last' = Call("voice_set_out", vi, idx)
              /\ stale' = stale
         ELSE /\ synth' = [synth EXCEPT !.voices[vp] =
                              picosynth_voice_set_out(@, idx)]
              /\ \E returns \in {set_out_returns(synth.voices[vp], idx)} :
                   /\ last' = Call(IF returns THEN "voice_set_out"
                                   ELSE "stack_overflow", vi, idx)
                   /\ stale' = IF returns /\ idx < synth.voices[vp].n_nodes
                                THEN stale \ {vi} ELSE stale
    /\ calls' = calls + 1
    /\ UNCHANGED <<lfsr_seed, ret, ran, noted, tracked, tick, operand,
                   result, heap, observed>>

NoteOn(voice, note) ==
    /\ Budget
    /\ synth' = picosynth_note_on(synth, voice, note)
    /\ last' = Call("note_on", voice, note)
    /\ noted' = IF voice < synth.num_voices THEN noted \cup {voice} ELSE noted
    /\ tracked' = IF voice < synth.num_voices /\ voice < 16
                  THEN tracked \cup {voice} ELSE tracked
    /\ calls' = calls + 1
    /\ UNCHANGED <<lfsr_seed, ret, ran, stale, tick, operand,
                   result, heap, observed>>

NoteOff(voice) ==
    /\ Budget
    /\ synth' = picosynth_note_off(synth, voice)
    /\ last' = Call("note_off", voice, 0)
    /\ calls' = calls + 1
    /\ UNCHANGED <<lfsr_seed, ret, ran, noted, tracked, stale, tick, operand,
                   result, heap, observed>>

\* What a read behind the empty node array of a voice created with 0 nodes
\* may yield.
OobReads == {Q15_MIN, 0, Q15_MAX}

\* picosynth_process.  In a specification that bounds the number of calls the
\* call is counted (counted = TRUE); where the samples are drawn without end
\* it is not.
ProcessCall(counted) ==
    /\ Alive
    /\ counted => Budget
    /\ IF process_undefined(synth)
       THEN /\ last' = Call("undefined", 0, 0)
            /\ UNCHANGED <<synth, lfsr_seed, ret, ran, tracked>>
       ELSE /\ \E oob \in (IF \E vi \in 0..(synth.num_voices - 1) :
                                 synth.voices[vi].n_nodes = 0
                           THEN OobReads ELSE {0}) :
                 \E r \in {picosynth_process(synth, lfsr_seed, oob)} :
                     /\ synth' = r.s
                     /\ lfsr_seed' = r.seed
                     /\ ret' = r.ret
                     /\ ran' = r.ran
                     /\ tracked' =
                            {vi \in tracked :
                                ~(vi \in r.ran /\ r.s.voices[vi].gate = 0
                                  /\ VoiceSilent(r.s.voices[vi]))}
            /\ last' = Call("process", 0, 0)
    /\ calls' = IF counted THEN calls + 1 ELSE calls
    /\ tick' = IF counted THEN tick ELSE 1 - tick
    /\ UNCHANGED <<noted, stale, operand, result, heap>>

\* picosynth_process with nobody listening.
Process(counted) == ProcessCall(counted) /\ UNCHANGED observed

(***************************************************************************)
(* Spec: the engine driven through its whole interface, a synthesizer of   *)
(* 2 voices of 3 nodes.  Voice 0 is wired oscillator -> low-pass with an   *)
(* envelope beside them, voice 1 oscillator -> high-pass -> mixer.         *)
(***************************************************************************)
EnvFast == <<300000, 60000, 16383, 100000>>

Init == InitWith(2, 3)

Next ==
    \/ \E vi \in {0, 1} : InitOsc(vi, 0, NullRef, FreqRef, "square")
    \/ SetDetune(0, 0, ExtRef(4096))
    \/ InitLp(0, 1, NullRef, NodeRef(0), 16384)
    \/ InitEnv(0, 2, NullRef, EnvFast[1], EnvFast[2], EnvFast[3], EnvFast[4])
    \/ InitHp(1, 1, NullRef, NodeRef(0), 16384)
    \/ InitMix(1, 2, NullRef, NodeRef(0), NodeRef(1), NullRef)
    \/ FilterSetCoeff(0, 1, 0)
    \/ \E vi \in {0, 1} : SetOut(vi, 1)
    \/ \E vi \in {0, 1} : NoteOn(vi, 60)
    \/ NoteOn(0, 127)
    \/ \E vi \in {0, 1} : NoteOff(vi)
    \/ Process(TRUE)

Spec == Init /\ [][Next]_vars

(***************************************************************************)
(* C1: every sample picosynth_process returns lies in [-32768, 32767].     *)
(***************************************************************************)
RetInRange == ret \in Q15_MIN..Q15_MAX

\* Two voices were evaluated whose outputs sum to more than full scale.
RetInRangeWitness ==
    /\ last.op = "process"
    /\ ret # 0
    /\ {0, 1} \subseteq ran
    /\ VoiceOut(synth.voices[0], 0) + VoiceOut(synth.voices[1], 0) > Q15_MAX

(***************************************************************************)
(* SpecMany: 17 voices of 1 node.  Voice 0 is tracked by the enable mask,  *)
(* voice 16 is beyond it.  The envelope rises by 17 a sample, so that it   *)
(* is released from a value the release brings to 0 in one sample.         *)
(***************************************************************************)
EnvTiny == <<17, 60000, 16383, 100000>>

InitMany == InitWith(17, 1)

NextMany ==
    \/ \E vi \in {0, 16} : InitOsc(vi, 0, NullRef, FreqRef, "square")
    \/ InitEnv(0, 0, NullRef, EnvTiny[1], EnvTiny[2], EnvTiny[3], EnvTiny[4])
    \/ \E vi \in {0, 16} : NoteOn(vi, 60)
    \/ \E vi \in {0, 16} : NoteOff(vi)
    \/ Process(TRUE)

SpecMany == InitMany /\ [][NextMany]_vars

(***************************************************************************)
(* C2: as long as no voice has received a note-on, picosynth_process       *)
(* returns 0, for every number of voices and every wiring.                 *)
(***************************************************************************)
SilentBeforeNoteOn == noted = {} => ret = 0

(***************************************************************************)
(* C8: bit i of voice_enable_mask is set exactly for the voices i < 16     *)
(* that have received a note-on and have not since been found released and *)
(* silent by picosynth_process; a bit is set only by the note-on of its    *)
(* voice and cleared only by picosynth_process; and every                  *)
(* picosynth_process evaluates every voice of index 16 or more.            *)
(***************************************************************************)
EnableBit(i) == TestBit(synth.voice_enable_mask, i)

TrackedVoices == {i \in 0..15 : i < synth.num_voices}

EnableMaskState ==
    /\ \A i \in TrackedVoices : EnableBit(i) <=> i \in tracked
    /\ synth.voice_enable_mask < 2 ^ 16
    /\ last.op = "process" =>
           \A vi \in 16..(synth.num_voices - 1) : vi \in ran

EnableMaskStep ==
    \A i \in TrackedVoices :
        /\ (~EnableBit(i) /\ EnableBit(i)') =>
               (last'.op = "note_on" /\ last'.voice = i)
        /\ (EnableBit(i) /\ ~EnableBit(i)') => last'.op = "process"

EnableMaskTracksNotes == [](EnableMaskState) /\ [][EnableMaskStep]_vars

\* picosynth_process has cleared the bit of voice 0, which had been set, and
\* has evaluated voice 16, which never received a note-on.
EnableMaskWitness ==
    /\ last.op = "process"
    /\ 0 \in noted
    /\ ~EnableBit(0)
    /\ 16 \in ran
    /\ 16 \notin noted

(***************************************************************************)
(* C9: note_on(v, note) with v < num_voices sets the gate, stores the note *)
(* and its phase increment, zeroes state and out of every node, zeroes     *)
(* accum and loads coeff from coeff_target in every filter, zeroes         *)
(* block_counter and block_rate in every envelope, sets the enable bit of  *)
(* a voice below 16, and leaves types, wiring, envelope parameters,        *)
(* coeff_target, out_idx and node_usage_mask as they were.                 *)
(***************************************************************************)
NodeConfigSame(n, m) ==
    /\ m.type = n.type /\ m.gain = n.gain
    /\ m.freq = n.freq /\ m.detune = n.detune /\ m.wave = n.wave
    /\ m.in = n.in /\ m.mix_in = n.mix_in
    /\ m.attack = n.attack /\ m.decay = n.decay /\ m.sustain = n.sustain
    /\ m.release = n.release /\ m.decay_coeff = n.decay_coeff
    /\ m.release_coeff = n.release_coeff
    /\ m.coeff_target = n.coeff_target

NoteOnPost(v, w, note) ==
    /\ w.gate = 1 /\ w.note = note /\ w.freq = picosynth_midi_to_freq(note)
    /\ w.n_nodes = v.n_nodes /\ w.out_idx = v.out_idx
    /\ w.node_usage_mask = v.node_usage_mask
    /\ \A i \in 0..(v.n_nodes - 1) :
         LET n == v.nodes[i]
             m == w.nodes[i]
         IN  /\ NodeConfigSame(n, m)
             /\ m.state = 0 /\ m.out = 0
             /\ n.type \in {"LP", "HP"} =>
                    (m.accum = 0 /\ m.coeff = n.coeff_target)
             /\ n.type = "ENV" => (m.block_counter = 0 /\ m.block_rate = 0)

NoteOnStep ==
    (last'.op = "note_on" /\ last'.voice < synth.num_voices) =>
        /\ NoteOnPost(synth.voices[last'.voice], synth'.voices[last'.voice],
                      last'.arg)
        /\ last'.voice < 16 =>
               TestBit(synth'.voice_enable_mask, last'.voice)

NoteOnResets == [][NoteOnStep]_vars

\* A note-on has retriggered a voice that had already produced sound and
\* holds a filter and an envelope.
NoteOnWitness ==
    /\ last.op = "note_on"
    /\ last.voice < synth.num_voices
    /\ ret # 0
    /\ \E i, j \in 0..(synth.voices[last.voice].n_nodes - 1) :
         /\ synth.voices[last.voice].nodes[i].type = "LP"
         /\ synth.voices[last.voice].nodes[j].type = "ENV"

(***************************************************************************)
(* C10: note_off(v) with v < num_voices clears the gate of voice v and the *)
(* block_counter of its envelope nodes, and changes nothing else.          *)
(***************************************************************************)
NoteOffStep ==
    (last'.op = "note_off" /\ last'.voice < synth.num_voices) =>
        LET v == synth.voices[last'.voice]
            w == synth'.voices[last'.voice]
        IN  /\ w.gate = 0
            /\ w.note = v.note /\ w.freq = v.freq /\ w.out_idx = v.out_idx
            /\ w.node_usage_mask = v.node_usage_mask
            /\ w.n_nodes = v.n_nodes
            /\ \A i \in 0..(v.n_nodes - 1) :
                 /\ NodeConfigSame(v.nodes[i], w.nodes[i])
                 /\ w.nodes[i].state = v.nodes[i].state
                 /\ w.nodes[i].out = v.nodes[i].out
                 /\ w.nodes[i].accum = v.nodes[i].accum
                 /\ w.nodes[i].coeff = v.nodes[i].coeff
                 /\ w.nodes[i].block_rate = v.nodes[i].block_rate
                 /\ w.nodes[i].block_counter =
                        IF v.nodes[i].type = "ENV" THEN 0
                        ELSE v.nodes[i].block_counter
            /\ \A vi \in 0..(synth.num_voices - 1) :
                 vi # last'.voice => synth'.voices[vi] = synth.voices[vi]
            /\ synth'.voice_enable_mask = synth.voice_enable_mask
            /\ synth'.num_voices = synth.num_voices
            /\ lfsr_seed' = lfsr_seed /\ ret' = ret

NoteOffFrame == [][NoteOffStep]_vars

\* A note-off has reached a sounding voice: an envelope in mid-block holding
\* a value, a filter holding a charge.
NoteOffWitness ==
    /\ last.op = "note_off"
    /\ last.voice < synth.num_voices
    /\ synth.voices[last.voice].gate = 0
    /\ \E i, j \in 0..(synth.voices[last.voice].n_nodes - 1) :
         /\ synth.voices[last.voice].nodes[i].type = "ENV"
         /\ EnvValue(synth.voices[last.voice].nodes[i].state) # 0
         /\ synth.voices[last.voice].nodes[i].block_rate # 0
         /\ synth.voices[last.voice].nodes[j].type = "LP"
         /\ synth.voices[last.voice].nodes[j].accum # 0

(***************************************************************************)
(* SpecLive: one voice of 2 nodes, an envelope and an oscillator without   *)
(* a frequency input, which holds its phase.  The calls other than         *)
(* picosynth_process are bounded in number; picosynth_process is called    *)
(* for every sample of an audio stream that does not end.                  *)
(***************************************************************************)
\* An envelope that reaches the peak in 2 samples and is sustained there.
EnvHeld == <<300000, 60000, Q15_MAX, 100000>>

InitLive == InitWith(1, 2)

\* The calls made before the stream is left to run.
MaxLiveCalls == 4

NextLive ==
    \/ /\ calls < MaxLiveCalls
       /\ \/ InitEnv(0, 0, NullRef,
                     EnvHeld[1], EnvHeld[2], EnvHeld[3], EnvHeld[4])
          \/ InitOsc(0, 1, NullRef, NullRef, "square")
          \/ SetOut(0, 1)
          \/ NoteOn(0, 60)
          \/ NoteOff(0)
    \/ Process(FALSE)

SpecLive == InitLive /\ [][NextLive]_vars /\ WF_vars(Process(FALSE))

\* The voices of SpecLive.
LiveVoices == {0}

\* The voice has been released: its gate is down.
Released(vi) == synth.voices[vi].gate = 0

EnvNodes(vi) ==
    {i \in 0..(synth.voices[vi].n_nodes - 1) :
        synth.voices[vi].nodes[i].type = "ENV"}

NodeValue(vi, i) == EnvValue(synth.voices[vi].nodes[i].state)

\* picosynth_process evaluates every envelope node of the voice that holds a
\* value.
EnvsEvaluated(vi) ==
    \A i \in EnvNodes(vi) :
        NodeValue(vi, i) # 0 => i \in EvaluatedNodes(synth.voices[vi])

(***************************************************************************)
(* C3, as stated: a voice below 16 that receives no further note-on has    *)
(* its enable bit at 0 after finitely many calls of picosynth_process, and *)
(* the bit stays 0.                                                        *)
(***************************************************************************)
AutoDisable == \A vi \in LiveVoices : <>[](~EnableBit(vi))

(***************************************************************************)
(* C3, amended: a voice below 16 that has been released by note_off,       *)
(* receives no further note-on, and whose envelope nodes holding a value   *)
(* are all evaluated by picosynth_process, has its enable bit at 0 after   *)
(* finitely many calls of picosynth_process, and the bit stays 0.          *)
(***************************************************************************)
AutoDisableReleased ==
    \A vi \in LiveVoices :
        <>[]((Released(vi) /\ EnvsEvaluated(vi)) => ~EnableBit(vi))

\* picosynth_process has disabled a released voice, whose envelope took
\* more than one sample of release to come down to 0.
AutoDisableWitness ==
    /\ last.op = "process"
    /\ 0 \in noted
    /\ Released(0)
    /\ ~EnableBit(0)
    /\ \E i \in EnvNodes(0) :
         /\ NodeValue(0, i) = 0
         /\ synth.voices[0].nodes[i].block_rate < 0
         /\ synth.voices[0].nodes[i].block_counter
                < PICOSYNTH_BLOCK_SIZE - 1

(***************************************************************************)
(* C4, as stated: after note_off and with no later note-on, the value of   *)
(* every envelope node of the voice never increases from one call of       *)
(* picosynth_process to the next, and reaches 0 after finitely many calls. *)
(***************************************************************************)
ReleaseStep ==
    \A vi \in 0..(synth.num_voices - 1) :
        (Released(vi) /\ Released(vi)') =>
            \A i \in EnvNodes(vi) :
                synth'.voices[vi].nodes[i].type = "ENV" =>
                    EnvValue(synth'.voices[vi].nodes[i].state)
                        <= NodeValue(vi, i)

ReleaseToZero ==
    /\ [][ReleaseStep]_vars
    /\ \A vi \in LiveVoices :
         <>[](Released(vi) => \A i \in EnvNodes(vi) : NodeValue(vi, i) = 0)

(***************************************************************************)
(* C4, amended: after note_off and with no later note-on, the value of     *)
(* every envelope node of the voice never increases from one call of       *)
(* picosynth_process to the next, and the value of every envelope node     *)
(* that picosynth_process evaluates reaches 0 after finitely many calls.   *)
(***************************************************************************)
ReleaseToZeroEvaluated ==
    /\ [][ReleaseStep]_vars
    /\ \A vi \in LiveVoices :
         <>[](Released(vi) =>
                \A i \in EnvNodes(vi) :
                    i \in EvaluatedNodes(synth.voices[vi])
                        => NodeValue(vi, i) = 0)

\* A released envelope, which the attack had brought to 300000 or more, has
\* come down under 1000 and is still on its way to 0.
ReleaseWitness ==
    /\ last.op = "process"
    /\ Released(0)
    /\ 0 \in noted
    /\ \E i \in EnvNodes(0) :
         /\ i \in EvaluatedNodes(synth.voices[0])
         /\ NodeValue(0, i) \in 1..1000
         /\ synth.voices[0].nodes[i].block_rate < 0

(***************************************************************************)
(* SpecGraph: one voice of 3 nodes, wired and rewired: an oscillator at    *)
(* node 0, a low-pass at node 1 that reads node 0 or node 2, an oscillator *)
(* or a mixer at node 2, the filter fed back into the oscillator by        *)
(* detune, and the output chosen among the nodes.                          *)
(***************************************************************************)
InitGraph == InitWith(1, 3)

NextGraph ==
    \/ \E i \in {0, 2}, wave \in {"square", "noise"} :
         InitOsc(0, i, NullRef, FreqRef, wave)
    \/ \E in \in {NodeRef(0), NodeRef(2)} : InitLp(0, 1, NullRef, in, 16384)
    \/ InitMix(0, 2, NullRef, NodeRef(0), NodeRef(1), NullRef)
    \/ SetDetune(0, 0, NodeRef(1))
    \/ \E idx \in 0..3 : SetOut(0, idx)
    \/ NoteOn(0, 60)
    \/ Process(TRUE)

SpecGraph == InitGraph /\ [][NextGraph]_vars

\* The nodes that node i of voice v reads: the references of its gain and of
\* the inputs of its type that point to a node of the voice.
Reads(v, i) ==
    LET n == v.nodes[i]
        refs == {n.gain} \cup
                (CASE n.type = "OSC" -> {n.freq, n.detune}
                   [] n.type \in {"LP", "HP"} -> {n.in}
                   [] n.type = "MIX" -> {n.mix_in[1], n.mix_in[2], n.mix_in[3]}
                   [] OTHER -> {})
    IN  {r[2] : r \in {x \in refs : x[1] = "node" /\ x[2] < v.n_nodes}}

\* The nodes reachable from the nodes of set, those of set included.
RECURSIVE ReachFrom(_, _)
ReachFrom(v, set) ==
    Bind(set \cup UNION {Reads(v, i) : i \in set},
         LAMBDA more : IF more = set THEN set ELSE ReachFrom(v, more))

Reachable(v) == ReachFrom(v, {v.out_idx})

MaskBits(v) == {i \in 0..7 : TestBit(v.node_usage_mask, i)}

(***************************************************************************)
(* C5, as stated: whenever picosynth_process evaluates a voice of at most  *)
(* 8 nodes, every node reachable from the output node has its bit in       *)
(* node_usage_mask, and no node that is not reachable is evaluated.        *)
(***************************************************************************)
DependencyClosure ==
    last.op = "process" =>
        \A vi \in ran :
            LET v == synth.voices[vi]
            IN  (0 < v.n_nodes /\ v.n_nodes <= 8) =>
                    /\ Reachable(v) \subseteq MaskBits(v)
                    /\ EvaluatedNodes(v) \subseteq Reachable(v)

(***************************************************************************)
(* C5, amended: for a voice of at most 8 nodes whose output node was       *)
(* chosen by a voice_set_out made after the last call that wired one of    *)
(* its nodes, node_usage_mask holds the bits of the nodes reachable from   *)
(* the output node and no other, and picosynth_process evaluates no node   *)
(* that is not reachable.                                                  *)
(***************************************************************************)
DependencyClosureAfterSetOut ==
    \A vi \in 0..(synth.num_voices - 1) :
        LET v == synth.voices[vi]
        IN  (vi \notin stale /\ 0 < v.n_nodes /\ v.n_nodes <= 8) =>
                /\ MaskBits(v) = Reachable(v)
                /\ v.node_usage_mask < 2 ^ 8
                /\ EvaluatedNodes(v) \subseteq Reachable(v)

\* picosynth_process has evaluated a voice whose output was chosen after its
\* wiring: it reads one node through another and leaves a third, wired, aside.
DependencyClosureWitness ==
    /\ last.op = "process"
    /\ 0 \in ran
    /\ 0 \notin stale
    /\ \A i \in 0..2 : synth.voices[0].nodes[i].type # "NONE"
    /\ Reachable(synth.voices[0]) = {0, 1}
    /\ EvaluatedNodes(synth.voices[0]) = {0, 1}
    /\ synth.voices[0].nodes[0].out # 0

(***************************************************************************)
(* C6: within one picosynth_process no node uses a value that another node *)
(* committed during that call: the output of pass 1, the phase increment   *)
(* an oscillator reads through freq and detune and the input a filter      *)
(* accumulates all come from the outputs committed by the previous call.   *)
(***************************************************************************)
\* What a reference read before the call yields, 0 for no reference.
ReadBefore(v, ref) == IF ref = NullRef THEN 0 ELSE Deref(v, ref)

SatInt32(x) ==
    IF x > INT32_MAX THEN INT32_MAX ELSE IF x < INT32_MIN THEN INT32_MIN ELSE x

\* v the voice before the call, w after it.
IsolatedUpdate(v, w, seed) ==
    \A i \in EvaluatedNodes(v) :
        LET n == v.nodes[i]
            m == w.nodes[i]
        IN  /\ (n.type # "OSC" \/ n.wave # "noise") =>
                   m.out = q15_sat(node_output(v, n, seed)[1])
            /\ n.type = "OSC" =>
                   m.state = (n.state + ReadBefore(v, n.freq)
                                      + ReadBefore(v, n.detune)) % 32768
            /\ (n.type \in {"LP", "HP"} /\ n.in # NodeRef(i)) =>
                   m.accum = SatInt32(n.accum + ReadBefore(v, n.in) - m.out)

TwoPassStep ==
    last'.op = "process" =>
        \A vi \in ran' :
            IsolatedUpdate(synth.voices[vi], synth'.voices[vi], lfsr_seed)

TwoPassIsolation == [][TwoPassStep]_vars

(***************************************************************************)
(* C7: exchanging the positions of two nodes of a voice neither of which   *)
(* reads the other, directly or through other nodes, with every reference  *)
(* re-pointed, leaves the samples of the voice unchanged.  The two         *)
(* declarations are compared from a note-on, which leaves them in the same *)
(* state, over the samples that follow, for a voice whose nodes have all   *)
(* been initialised.                                                       *)
(***************************************************************************)
Lookahead == 3

SwapIdx(i, j, k) == IF k = i THEN j ELSE IF k = j THEN i ELSE k

SwapRef(i, j, ref) ==
    IF ref[1] = "node" THEN NodeRef(SwapIdx(i, j, ref[2])) ELSE ref

SwapNode(i, j, n) ==
    [n EXCEPT !.gain = SwapRef(i, j, @),
              !.freq = SwapRef(i, j, @),
              !.detune = SwapRef(i, j, @),
              !.in = SwapRef(i, j, @),
              !.mix_in = <<SwapRef(i, j, @[1]), SwapRef(i, j, @[2]),
                           SwapRef(i, j, @[3])>>]

SwapMask(i, j, mask) ==
    LET bi == TestBit(mask, i)
        bj == TestBit(mask, j)
        m1 == IF bj THEN SetBit(mask, i) ELSE ClearBit(mask, i)
    IN  IF bi THEN SetBit(m1, j) ELSE ClearBit(m1, j)

\* The voice declared with nodes i and j in each other's place.
SwapVoice(v, i, j) ==
    [v EXCEPT
       !.nodes = [k \in 0..(v.n_nodes - 1) |->
                     SwapNode(i, j, v.nodes[SwapIdx(i, j, k)])],
       !.out_idx = SwapIdx(i, j, @),
       !.node_usage_mask = SwapMask(i, j, @)]

\* The next k samples of voice v.
RECURSIVE OutSeq(_, _, _)
OutSeq(v, seed, k) ==
    IF k = 0 THEN << >>
    ELSE Bind(voice_eval(v, seed),
              LAMBDA r : <<VoiceOut(r.v, 0)>> \o OutSeq(r.v, r.seed, k - 1))

Independent(v, i, j) ==
    /\ j \notin ReachFrom(v, {i})
    /\ i \notin ReachFrom(v, {j})

SwapIndependentNodes ==
    (last.op = "note_on" /\ last.voice < synth.num_voices) =>
        LET v == synth.voices[last.voice]
        IN  \A i, j \in 0..(v.n_nodes - 1) :
                (/\ i < j
                 /\ \A k \in 0..(v.n_nodes - 1) : v.nodes[k].type # "NONE"
                 /\ Independent(v, i, j)) =>
                    OutSeq(SwapVoice(v, i, j), lfsr_seed, Lookahead)
                        = OutSeq(v, lfsr_seed, Lookahead)

(***************************************************************************)
(* SpecWide: one voice of 9 nodes, one more than node_usage_mask has bits.  *)
(* The program has initialised nodes 2 to 8 as oscillators after            *)
(* picosynth_create; nodes 0 and 1 are wired and rewired from there: a      *)
(* mixer at node 0 that reads nodes 1 and 8 in either order, an oscillator  *)
(* at node 1, which detune feeds back from the mixer.                       *)
(***************************************************************************)
WideNodes == 9

InitWide ==
    /\ synth = [picosynth_create(1, WideNodes) EXCEPT
                  !.voices[0].nodes =
                      [i \in 0..(WideNodes - 1) |->
                          IF i >= 2
                          THEN picosynth_init_osc(NullRef, FreqRef, "square")
                          ELSE NodeZero]]
    /\ lfsr_seed = lfsr_seed_init
    /\ ret = 0
    /\ last = Call("init_osc", 0, WideNodes - 1)
    /\ ran = {}
    /\ noted = {}
    /\ tracked = {}
    /\ stale = {0}
    /\ calls = 0
    /\ tick = 0
    /\ operand = 0
    /\ result = NoVal
    /\ heap = picosynth_create_alloc(1, WideNodes, 0).blocks
    /\ observed = NoObs

NextWide ==
    \/ \E ins \in {<<NodeRef(8), NodeRef(1)>>, <<NodeRef(1), NodeRef(8)>>,
                   <<NodeRef(1), NullRef>>} :
         InitMix(0, 0, NullRef, ins[1], ins[2], NullRef)
    \/ InitOsc(0, 1, NullRef, FreqRef, "square")
    \/ SetDetune(0, 1, NodeRef(0))
    \/ \E idx \in {0, 1, 8, 9} : SetOut(0, idx)
    \/ NoteOn(0, 60)
    \/ Process(TRUE)

SpecWide == InitWide /\ [][NextWide]_vars

\* The last call was an accepted voice_set_out on voice vi, which returned.
AfterSetOut(vi) ==
    /\ last.op = "voice_set_out"
    /\ last.voice = vi
    /\ vi < synth.num_voices
    /\ last.arg < synth.voices[vi].n_nodes

(***************************************************************************)
(* C11: after voice_set_out, if a node reachable from the output node has  *)
(* index 8 or more, node_usage_mask is 0, wherever that node stands among  *)
(* the dependencies of the other reachable nodes.                          *)
(***************************************************************************)
MaskOffBeyondEight ==
    \A vi \in 0..(synth.num_voices - 1) :
        (AfterSetOut(vi) /\ \E i \in Reachable(synth.voices[vi]) : i >= 8)
            => synth.voices[vi].node_usage_mask = 0

(***************************************************************************)
(* C12: for a voice created with more than 8 nodes, node_usage_mask is 0   *)
(* after every voice_set_out, and picosynth_process evaluates every        *)
(* populated node of the voice.                                            *)
(***************************************************************************)
MaskOffForWideVoice ==
    \A vi \in 0..(synth.num_voices - 1) :
        LET v == synth.voices[vi]
        IN  v.n_nodes > 8 =>
                /\ AfterSetOut(vi) => v.node_usage_mask = 0
                /\ (last.op = "process" /\ vi \in ran) =>
                       EvaluatedNodes(v) = 0..(PrefixLen(v, 0) - 1)

(***************************************************************************)
(* C13: voice_set_out returns for every wiring, cyclic wiring included,    *)
(* and the dependency trace it made marked no node twice.                  *)
(***************************************************************************)
NoRepeat(seq) ==
    \A a, b \in 1..Len(seq) : a # b => seq[a] # seq[b]

SetOutTerminates ==
    /\ last.op # "stack_overflow"
    /\ \A vi \in 0..(synth.num_voices - 1) :
         AfterSetOut(vi) =>
             NoRepeat(mark_node_used(synth.voices[vi], 0,
                                     synth.voices[vi].out_idx).marked)

(***************************************************************************)
(* SpecEdge: 2 voices of 2 nodes, voice 0 wired oscillator -> low-pass,    *)
(* called with indices inside and outside the ranges: voices 2 and 255,    *)
(* nodes 2 and 255.                                                        *)
(***************************************************************************)
InitEdge == InitWith(2, 2)

NextEdge ==
    \/ InitOsc(0, 0, NullRef, FreqRef, "square")
    \/ InitLp(0, 1, NullRef, NodeRef(0), 16384)
    \/ \E voice \in {0, 2, 255} : NoteOn(voice, 60)
    \/ \E voice \in {0, 2, 255} : NoteOff(voice)
    \/ \E vi \in {0, 2}, idx \in {1, 2, 255} : SetOut(vi, idx)
    \/ \E vi \in {0, 2}, i \in {0, 1, 2} : FilterSetCoeff(vi, i, 8192)
    \/ Process(TRUE)

SpecEdge == InitEdge /\ [][NextEdge]_vars

\* The values of a uint8_t index.
Uint8 == 0..255

(***************************************************************************)
(* C14: out-of-range and absent arguments change nothing.  get_voice with  *)
(* idx >= num_voices and voice_get_node with idx >= n_nodes return null;   *)
(* note_on and note_off with voice >= num_voices, voice_set_out with       *)
(* idx >= n_nodes or on a null voice, and filter_set_coeff on a null node  *)
(* or on a node that is not a filter leave the whole synthesizer as it was. *)
(***************************************************************************)
AccessorsNull ==
    /\ \A idx \in Uint8 :
         idx >= synth.num_voices => picosynth_get_voice(synth, idx) = NullPtr
    /\ \A vi \in 0..(synth.num_voices - 1), idx \in Uint8 :
         idx >= synth.voices[vi].n_nodes =>
             picosynth_voice_get_node(synth, vi, idx) = NullPtr
    /\ \A idx \in Uint8 : picosynth_voice_get_node(synth, NullPtr, idx) = NullPtr

\* The call recorded in c, made on synthesizer s, has an argument out of
\* range, or reaches a node that is not a filter.
OutOfRangeCall(s, c) ==
    \/ c.op \in {"note_on", "note_off"} /\ c.voice >= s.num_voices
    \/ c.op = "voice_set_out" /\
           (c.voice >= s.num_voices \/ c.arg >= s.voices[c.voice].n_nodes)
    \/ c.op = "filter_set_coeff" /\
           (\/ c.voice >= s.num_voices
            \/ c.arg[1] >= s.voices[c.voice].n_nodes
            \/ s.voices[c.voice].nodes[c.arg[1]].type \notin {"LP", "HP"})

OutOfRangeStep ==
    OutOfRangeCall(synth, last') =>
        /\ synth' = synth
        /\ lfsr_seed' = lfsr_seed
        /\ ret' = ret

OutOfRangeNoOp == [](AccessorsNull) /\ [][OutOfRangeStep]_vars

\* An out-of-range voice_set_out has been made on a voice that sounds and
\* whose usage mask is in use.
OutOfRangeWitness ==
    /\ last.op = "voice_set_out"
    /\ last.voice = 0
    /\ last.arg >= synth.voices[0].n_nodes
    /\ synth.voices[0].node_usage_mask # 0
    /\ synth.voices[0].gate = 1
    /\ ret # 0

(***************************************************************************)
(* C18: filter_set_coeff(node, c) on an LP or HP node sets coeff_target of *)
(* that node to c and changes nothing else: the live coeff, accum, out,    *)
(* state and wiring of the node, and every other node, stay as they were.  *)
(***************************************************************************)
FilterSetCoeffStep ==
    (last'.op = "filter_set_coeff" /\ ~OutOfRangeCall(synth, last')) =>
        /\ synth' = [synth EXCEPT
                       !.voices[last'.voice].nodes[last'.arg[1]].coeff_target =
                           last'.arg[2]]
        /\ lfsr_seed' = lfsr_seed
        /\ ret' = ret

FilterSetCoeffFrame == [][FilterSetCoeffStep]_vars

\* filter_set_coeff has reached a filter that holds a charge and an output:
\* the target has moved away from the live coefficient.
FilterSetCoeffWitness ==
    /\ last.op = "filter_set_coeff"
    /\ ~OutOfRangeCall(synth, last)
    /\ LET n == synth.voices[last.voice].nodes[last.arg[1]]
       IN  /\ n.coeff_target = last.arg[2]
           /\ n.coeff # n.coeff_target
           /\ n.accum # 0
           /\ n.out # 0

(***************************************************************************)
(* SpecNotes: one voice of 1 node that receives note-ons, of every MIDI    *)
(* note from 0 to 127: each stores the note and its phase increment,       *)
(* picosynth_midi_to_freq(note), in the voice.                             *)
(***************************************************************************)
MidiNotes == 0..127

InitNotes == InitWith(1, 1)

NextNotes == \E note \in MidiNotes : NoteOn(0, note)

SpecNotes == InitNotes /\ [][NextNotes]_vars

\* The voices that hold the phase increment of a note.
Sounding == {vi \in 0..(synth.num_voices - 1) : vi \in noted}

(***************************************************************************)
(* C15: midi_to_freq(69) is the phase increment of 440 Hz,                 *)
(* 440 * 0x7FFF / SAMPLE_RATE (1307 at 11025 Hz), to within 2.             *)
(***************************************************************************)
ConcertPitch ==
    \A vi \in Sounding :
        synth.voices[vi].note = 69 =>
            Abs(synth.voices[vi].freq - PICOSYNTH_HZ_TO_FREQ(440)) <= 2

(***************************************************************************)
(* C16: for every note n in 0..115, midi_to_freq(n + 12) is                *)
(* q15_sat(2 * midi_to_freq(n)) or q15_sat(2 * midi_to_freq(n) + 1).       *)
(***************************************************************************)
OctaveStep ==
    \A vi \in Sounding :
        LET v == synth.voices[vi]
            w == synth'.voices[vi]
        IN  (/\ last'.op = "note_on" /\ last'.voice = vi
             /\ v.note <= 115
             /\ w.note = v.note + 12) =>
                w.freq \in {q15_sat(2 * v.freq), q15_sat(2 * v.freq + 1)}

OctaveDoubles ==
    /\ [](\A vi \in Sounding :
             synth.voices[vi].freq =
                 picosynth_midi_to_freq(synth.voices[vi].note))
    /\ [][OctaveStep]_vars

\* The voice holds a note of octave 9 whose increment the doubling has
\* brought to the top of Q15.
OctaveWitness ==
    /\ last.op = "note_on"
    /\ 0 \in Sounding
    /\ synth.voices[0].note \in 108..127
    /\ synth.voices[0].freq = Q15_MAX
    /\ 2 * picosynth_midi_to_freq(synth.voices[0].note - 12) > Q15_MAX

(***************************************************************************)
(* SpecArith: q15_mul applied on its own to every Q15 value, with the      *)
(* second factor 0x7FFF (the Q15 one) or 0.                                *)
(***************************************************************************)
Q15 == Q15_MIN..Q15_MAX

InitArith ==
    /\ synth = picosynth_create(0, 0)
    /\ lfsr_seed = lfsr_seed_init
    /\ ret = 0
    /\ last = Call("create", 0, 0)
    /\ ran = {}
    /\ noted = {}
    /\ tracked = {}
    /\ stale = {}
    /\ calls = 0
    /\ tick = 0
    /\ operand \in Q15
    /\ result = NoVal
    /\ heap = picosynth_create_alloc(0, 0, 0).blocks
    /\ observed = NoObs

\* result = q15_mul(operand, b)
Q15MulBy(b) ==
    /\ result' = [by |-> b, is |-> q15_mul(operand, b), done |-> TRUE]
    /\ UNCHANGED <<synth, lfsr_seed, ret, last, ran, noted, tracked, stale,
                   calls, tick, operand, heap, observed>>

NextArith == Q15MulBy(Q15_MAX) \/ Q15MulBy(0)

SpecArith == InitArith /\ [][NextArith]_vars

(***************************************************************************)
(* C17: for every Q15 value a, q15_mul(a, 0x7FFF) differs from a by 1 at   *)
(* most, and q15_mul(a, 0) = 0.                                            *)
(***************************************************************************)
MulByOne ==
    result.done =>
        /\ result.by = Q15_MAX => Abs(result.is - operand) <= 1
        /\ result.by = 0 => result.is = 0

\* The product by 0x7FFF of the most negative value, which it leaves 1 away.
MulByOneWitness ==
    /\ result.done
    /\ result.by = Q15_MAX
    /\ operand = Q15_MIN
    /\ result.is = Q15_MIN + 1

(***************************************************************************)
(* SpecSmooth: one voice of 1 node, a low-pass filter without input.  Its  *)
(* coefficient target is moved to 600 and to -600, before and after the    *)
(* note-on and while the coefficient is on its way; picosynth_process is   *)
(* called for every sample of a stream that does not end.                  *)
(***************************************************************************)
InitSmooth == InitWith(1, 1)

\* The calls made besides picosynth_process.
MaxSmoothCalls == 4

NextSmooth ==
    \/ /\ calls < MaxSmoothCalls
       /\ \/ InitLp(0, 0, NullRef, NullRef, 0)
          \/ \E c \in {600, -600} : FilterSetCoeff(0, 0, c)
          \/ NoteOn(0, 60)
          \/ NoteOff(0)
    \/ Process(FALSE)

SpecSmooth == InitSmooth /\ [][NextSmooth]_vars /\ WF_vars(Process(FALSE))

\* The filter nodes of voice vi.
FilterNodes(vi) ==
    {i \in 0..(synth.voices[vi].n_nodes - 1) :
        synth.voices[vi].nodes[i].type \in {"LP", "HP"}}

\* What is left for the coefficient of node i of voice vi to travel.
CoeffDelta(vi, i) ==
    synth.voices[vi].nodes[i].coeff_target - synth.voices[vi].nodes[i].coeff

\* picosynth_process evaluates node i of voice vi: the voice is enabled and
\* the node is neither behind an empty slot nor masked out.
Evaluated(vi, i) ==
    /\ vi >= 16 \/ EnableBit(vi)
    /\ i \in EvaluatedNodes(synth.voices[vi])

(***************************************************************************)
(* C19: for a filter node evaluated on every picosynth_process, after      *)
(* filter_set_coeff(c) each call moves coeff toward c by delta >> 8, by 1  *)
(* at least while delta # 0, and never past c; coeff equals c after        *)
(* finitely many calls, and stays equal to c until the next                *)
(* filter_set_coeff.                                                       *)
(***************************************************************************)
SmoothStep ==
    \A vi \in 0..(synth.num_voices - 1) :
        \A i \in FilterNodes(vi) :
            LET n == synth.voices[vi].nodes[i]
                m == synth'.voices[vi].nodes[i]
                d == CoeffDelta(vi, i)
            IN  /\ (last'.op = "process" /\ Evaluated(vi, i)) =>
                       /\ m.coeff_target = n.coeff_target
                       /\ d = 0 => m.coeff = n.coeff
                       /\ d # 0 =>
                              /\ m.coeff - n.coeff =
                                     (IF d \div 256 # 0 THEN d \div 256
                                      ELSE IF d > 0 THEN 1 ELSE -1)
                              /\ Abs(m.coeff - n.coeff) >= 1
                              /\ Abs(m.coeff_target - m.coeff) < Abs(d)
                              /\ (m.coeff_target - m.coeff) * d >= 0
                /\ (last'.op \in {"process", "note_on", "note_off",
                                  "voice_set_out"} /\ d = 0) =>
                       m.coeff = m.coeff_target

CoeffSmoothing ==
    /\ [][SmoothStep]_vars
    /\ \A vi \in LiveVoices :
         <>[](\A i \in FilterNodes(vi) :
                 Evaluated(vi, i) => CoeffDelta(vi, i) = 0)

\* The coefficient, on its way from 0 to -600 or from 600 to -600, is one
\* call of picosynth_process away from the target.
CoeffSmoothingWitness ==
    /\ last.op = "process"
    /\ Evaluated(0, 0)
    /\ 0 \in FilterNodes(0)
    /\ synth.voices[0].nodes[0].coeff_target = -600
    /\ synth.voices[0].nodes[0].coeff = -599

(***************************************************************************)
(* SpecSat: one voice of 2 nodes, an envelope whose sustain is the most    *)
(* negative Q15 value or the one next to it, and a rising sawtooth.        *)
(***************************************************************************)
InitSat == InitWith(1, 2)

NextSat ==
    \/ \E sustain \in {Q15_MIN, -Q15_MAX} :
         InitEnv(0, 0, NullRef, 300000, 60000, sustain, 100000)
    \/ InitOsc(0, 1, NodeRef(0), FreqRef, "saw")
    \/ \E idx \in {0, 1} : SetOut(0, idx)
    \/ NoteOn(0, 127)
    \/ NoteOff(0)
    \/ Process(TRUE)

SpecSat == InitSat /\ [][NextSat]_vars

(***************************************************************************)
(* C20: no arithmetic of the engine wraps.  The |sustain| of an envelope   *)
(* is |sustain| clamped to Q15, so that the value of the envelope stays    *)
(* between 0 and the peak; the phase increment of a voice and the output   *)
(* committed by a node are Q15 values, the accumulator of a filter a       *)
(* 32-bit one, and no call overflows.                                      *)
(***************************************************************************)
NoWrap ==
    /\ last.op # "undefined"
    /\ \A vi \in 0..(synth.num_voices - 1) :
         LET v == synth.voices[vi]
         IN  /\ v.freq \in 0..Q15_MAX
             /\ \A i \in 0..(v.n_nodes - 1) :
                  LET n == v.nodes[i]
                  IN  /\ n.out \in Q15
                      /\ n.accum \in INT32_MIN..INT32_MAX
                      /\ n.type = "ENV" =>
                             /\ env_sus_abs(n.sustain)
                                    = q15_sat(Abs(n.sustain))
                             /\ EnvValue(n.state) \in 0..ENVELOPE_PEAK

(***************************************************************************)
(* SpecCreate: picosynth_create and picosynth_destroy on their own.  The   *)
(* program starts without a synthesizer; picosynth_create is called with   *)
(* voice and node counts from both sides of its limits, and any one of its *)
(* calloc calls may be the first to return NULL.                           *)
(***************************************************************************)
CreateVoices == {0, 1, 2, 3, 17, 255}

CreateNodes == {0, 1, PICOSYNTH_MAX_NODES, PICOSYNTH_MAX_NODES + 1, 255}

InitCreate ==
    /\ synth = NullSynth
    /\ lfsr_seed = lfsr_seed_init
    /\ ret = 0
    /\ last = Call("start", 0, 0)
    /\ ran = {}
    /\ noted = {}
    /\ tracked = {}
    /\ stale = {}
    /\ calls = 0
    /\ tick = 0
    /\ operand = 0
    /\ result = NoVal
    /\ heap = {}
    /\ observed = NoObs

\* s = picosynth_create(voices, nodes), recorded with the node count and
\* the calloc that fails.
Create(voices, nodes, fail) ==
    /\ synth = NullSynth
    /\ \E r \in {picosynth_create_alloc(voices, nodes, fail)} :
         /\ synth' = r.s
         /\ heap' = heap \cup r.blocks
    /\ last' = Call("create", voices, <<nodes, fail>>)
    /\ UNCHANGED <<lfsr_seed, ret, ran, noted, tracked, stale, calls, tick,
                   operand, result, observed>>

\* picosynth_destroy(s); s = NULL.
Destroy ==
    /\ heap' = heap \ picosynth_destroy(synth)
    /\ synth' = NullSynth
    /\ last' = Call("destroy", 0, 0)
    /\ UNCHANGED <<lfsr_seed, ret, ran, noted, tracked, stale, calls, tick,
                   operand, result, observed>>

\* The calloc that fails: none, one of the first MaxFail, or the last.
MaxFail == 5

CreateFails(voices) ==
    {fail \in 0..CreateCallocs(voices) :
        fail <= MaxFail \/ fail = CreateCallocs(voices)}

NextCreate ==
    \/ \E voices \in CreateVoices, nodes \in CreateNodes :
         \E fail \in CreateFails(voices) : Create(voices, nodes, fail)
    \/ Destroy

SpecCreate == InitCreate /\ [][NextCreate]_vars

(***************************************************************************)
(* C21: picosynth_create(voices, nodes) returns NULL exactly when nodes    *)
(* exceeds PICOSYNTH_MAX_NODES or one of its allocations fails, and then   *)
(* leaves nothing allocated; otherwise it returns a synthesizer whose      *)
(* enable mask is 0 and whose voices all have gate, freq, out_idx and      *)
(* usage mask 0 and n_nodes nodes of type NONE with out and state 0.       *)
(***************************************************************************)
CreateContract ==
    last.op = "create" =>
        LET voices == last.voice
            nodes == last.arg[1]
            fail == last.arg[2]
        IN  /\ synth = NullSynth <=>
                   (nodes > PICOSYNTH_MAX_NODES \/ fail # 0)
            /\ synth = NullSynth => heap = {}
            /\ synth # NullSynth =>
                   /\ synth.num_voices = voices
                   /\ synth.voice_enable_mask = 0
                   /\ DOMAIN synth.voices = 0..(voices - 1)
                   /\ \A vi \in 0..(voices - 1) :
                        LET v == synth.voices[vi]
                        IN  /\ v.gate = 0
                            /\ v.freq = 0
                            /\ v.out_idx = 0
                            /\ v.node_usage_mask = 0
                            /\ v.n_nodes = nodes
                            /\ DOMAIN v.nodes = 0..(nodes - 1)
                            /\ \A i \in 0..(nodes - 1) :
                                 /\ v.nodes[i].type = "NONE"
                                 /\ v.nodes[i].out = 0
                                 /\ v.nodes[i].state = 0

\* The node array of the third of 17 voices was refused, after the arrays
\* of the first two had been given.
CreateContractWitness ==
    /\ last.op = "create"
    /\ last.voice = 17
    /\ last.arg = <<PICOSYNTH_MAX_NODES, 5>>
    /\ synth = NullSynth
    /\ heap = {}

(***************************************************************************)
(* SpecWave: the waveform generators applied on their own to every phase   *)
(* an oscillator passes them, state & 0x7FFF.                              *)
(***************************************************************************)
Phases == 0..Q15_MAX

Shapes == {"saw", "square", "triangle", "falling", "exp"}

InitWave ==
    /\ synth = picosynth_create(0, 0)
    /\ lfsr_seed = lfsr_seed_init
    /\ ret = 0
    /\ last = Call("create", 0, 0)
    /\ ran = {}
    /\ noted = {}
    /\ tracked = {}
    /\ stale = {}
    /\ calls = 0
    /\ tick = 0
    /\ operand \in Phases
    /\ result = NoVal
    /\ heap = picosynth_create_alloc(0, 0, 0).blocks
    /\ observed = NoObs

\* result = picosynth_wave_<w>(operand)
WaveOf(w) ==
    /\ result' = [by |-> w, is |-> wave_call(w, operand, lfsr_seed)[1],
                  done |-> TRUE]
    /\ UNCHANGED <<synth, lfsr_seed, ret, last, ran, noted, tracked, stale,
                   calls, tick, operand, heap, observed>>

NextWave == \E w \in Shapes : WaveOf(w)

SpecWave == InitWave /\ [][NextWave]_vars

(***************************************************************************)
(* C22: for every phase in [0, 0x7FFF] the saw, square, triangle and       *)
(* falling generators return a value in [-0x7FFF, 0x7FFF], and the exp     *)
(* generator returns a value in [0, 0x7FFF].                               *)
(***************************************************************************)
WaveRange ==
    result.done =>
        /\ result.by \in {"saw", "square", "triangle", "falling"} =>
               result.is \in (-Q15_MAX)..Q15_MAX
        /\ result.by = "exp" => result.is \in 0..Q15_MAX

(***************************************************************************)
(* SpecEmpty: synthesizers of 1 or 2 voices created with 0 nodes or with 1 *)
(* node a voice.  A read behind the empty node array of a voice yields any *)
(* of OobReads.                                                            *)
(***************************************************************************)
InitEmpty == \E voices \in {1, 2}, nodes \in {0, 1} : InitWith(voices, nodes)

NextEmpty ==
    \/ \E vi \in {0, 1} : InitOsc(vi, 0, NullRef, FreqRef, "square")
    \/ \E vi \in {0, 1}, idx \in {0, 1} : SetOut(vi, idx)
    \/ \E vi \in {0, 1} : NoteOn(vi, 60)
    \/ \E vi \in {0, 1} : NoteOff(vi)
    \/ Process(TRUE)

SpecEmpty == InitEmpty /\ [][NextEmpty]_vars

(***************************************************************************)
(* C23: the out_idx of every voice is less than its n_nodes, for every     *)
(* pair of voice and node counts picosynth_create accepts, 0 nodes         *)
(* included; so the output picosynth_process reads from a voice it         *)
(* evaluates is the out of a node of the voice.                            *)
(***************************************************************************)
OutIdxInRange ==
    /\ \A vi \in 0..(synth.num_voices - 1) :
         synth.voices[vi].out_idx < synth.voices[vi].n_nodes
    /\ last.op = "process" =>
           \A vi \in ran :
               synth.voices[vi].out_idx < synth.voices[vi].n_nodes

(***************************************************************************)
(* SpecInit: one voice of 2 nodes, each of which may be initialised as a   *)
(* node of any type at any time, also after it has run as another.         *)
(***************************************************************************)
InitInit == InitWith(1, 2)

NextInit ==
    \/ \E i \in {0, 1} : InitOsc(0, i, NullRef, FreqRef, "square")
    \/ \E i \in {0, 1} :
         InitEnv(0, i, NullRef, EnvFast[1], EnvFast[2], EnvFast[3], EnvFast[4])
    \/ \E i \in {0, 1} : InitLp(0, i, NullRef, NodeRef(0), 16384)
    \/ \E i \in {0, 1} : InitHp(0, i, NodeRef(1), NodeRef(0), 8192)
    \/ \E i \in {0, 1} : InitMix(0, i, NullRef, NodeRef(0), NodeRef(1), NullRef)
    \/ \E idx \in {0, 1} : SetOut(0, idx)
    \/ NoteOn(0, 60)
    \/ NoteOff(0)
    \/ Process(TRUE)

SpecInit == InitInit /\ [][NextInit]_vars

\* The type each initializer gives the node.
InitType ==
    [init_osc |-> "OSC", init_env |-> "ENV", init_lp |-> "LP",
     init_hp |-> "HP", init_mix |-> "MIX"]

\* The node the initializer of m's type makes of the arguments that m holds.
InitOfArgs(m) ==
    CASE m.type = "OSC" -> picosynth_init_osc(m.gain, m.freq, m.wave)
      [] m.type = "ENV" -> picosynth_init_env(m.gain, m.attack, m.decay,
                                              m.sustain, m.release)
      [] m.type = "LP" -> picosynth_init_lp(m.gain, m.in, m.coeff_target)
      [] m.type = "HP" -> picosynth_init_hp(m.gain, m.in, m.coeff_target)
      [] m.type = "MIX" -> picosynth_init_mix(m.gain, m.mix_in[1],
                                              m.mix_in[2], m.mix_in[3])

(***************************************************************************)
(* C24: a call of picosynth_init_osc, _env, _lp, _hp or _mix on a node,    *)
(* whatever the node held, leaves it with the new type, state 0, out 0 and *)
(* a payload made of the arguments alone (a filter with accum 0 and coeff  *)
(* equal to coeff_target, an envelope with block_counter 0 and block_rate  *)
(* 0); no other node changes, nor out_idx, node_usage_mask and gate of the *)
(* voice, nor voice_enable_mask.                                           *)
(***************************************************************************)
InitStep ==
    last'.op \in DOMAIN InitType =>
        LET vi == last'.voice
            i == last'.arg
            m == synth'.voices[vi].nodes[i]
        IN  /\ m.type = InitType[last'.op]
            /\ m.state = 0
            /\ m.out = 0
            /\ m.type \in {"LP", "HP"} =>
                   m.accum = 0 /\ m.coeff = m.coeff_target
            /\ m.type = "ENV" => m.block_counter = 0 /\ m.block_rate = 0
            /\ m = InitOfArgs(m)
            /\ synth' = [synth EXCEPT !.voices[vi].nodes[i] = m]
            /\ synth'.voices[vi].out_idx = synth.voices[vi].out_idx
            /\ synth'.voices[vi].node_usage_mask
                   = synth.voices[vi].node_usage_mask
            /\ synth'.voices[vi].gate = synth.voices[vi].gate
            /\ synth'.voice_enable_mask = synth.voice_enable_mask

InitFrame == [][InitStep]_vars

\* Node 0 ran as a square oscillator, which gave the one sample drawn, and
\* is now a low-pass filter; the voice sounds, its output is node 0.
InitFrameWitness ==
    /\ last = Call("init_lp", 0, 0)
    /\ calls = 4
    /\ ret # 0
    /\ synth.voices[0].gate = 1
    /\ synth.voices[0].out_idx = 0
    /\ synth.voices[0].nodes[0] = picosynth_init_lp(NullRef, NodeRef(0), 16384)

(***************************************************************************)
(* SpecMix: 2, 3 or 4 voices of 1 node, a mixer that reads a cell holding  *)
(* a level; all voices start wired to the same level, and voice 0 may be   *)
(* wired to another.                                                       *)
(***************************************************************************)
Levels == {Q15_MIN, -16384, -1, 0, 1, 16384, Q15_MAX}

InitMixer ==
    \E voices \in {2, 3, 4}, x \in Levels :
        /\ synth = [picosynth_create(voices, 1) EXCEPT
                      !.voices = [vi \in 0..(voices - 1) |->
                          [@[vi] EXCEPT !.nodes[0] =
                              picosynth_init_mix(NullRef, ExtRef(x),
                                                 NullRef, NullRef)]]]
        /\ lfsr_seed = lfsr_seed_init
        /\ ret = 0
        /\ last = Call("init_mix", voices - 1, 0)
        /\ ran = {}
        /\ noted = {}
        /\ tracked = {}
        /\ stale = 0..(voices - 1)
        /\ calls = 0
        /\ tick = 0
        /\ operand = 0
        /\ result = NoVal
        /\ heap = picosynth_create_alloc(voices, 1, 0).blocks
        /\ observed = NoObs

NextMixer ==
    \/ \E x \in {0, Q15_MAX} :
         InitMix(0, 0, NullRef, ExtRef(x), NullRef, NullRef)
    \/ \E vi \in 0..3 : NoteOn(vi, 60)
    \/ \E vi \in 0..3 : NoteOff(vi)
    \/ Process(TRUE)

SpecMix == InitMixer /\ [][NextMixer]_vars

\* The sum picosynth_process has made of the outputs of the voices vi and
\* above that it evaluated.
RECURSIVE SumRan(_)
SumRan(vi) ==
    IF vi >= synth.num_voices THEN 0
    ELSE (IF vi \in ran THEN VoiceOut(synth.voices[vi], 0) ELSE 0)
         + SumRan(vi + 1)

\* The output node of every voice holds the same value.
SameLevel ==
    \A vi \in 0..(synth.num_voices - 1) :
        VoiceOut(synth.voices[vi], 0) = VoiceOut(synth.voices[0], 0)

\* The scaled sum is within num_voices + 1 of the level of voice 0, and the
\* sample returned is the clipped scaled sum, within [-0x7FFF, 0x7FFF].
NearLevel ==
    /\ Abs(mix_scale(SumRan(0), synth.num_voices)
             - VoiceOut(synth.voices[0], 0)) <= synth.num_voices + 1
    /\ ret = soft_clip(mix_scale(SumRan(0), synth.num_voices))
    /\ ret \in (-Q15_MAX)..Q15_MAX

(***************************************************************************)
(* C25: with N > 1 voices whose output nodes all hold the same value x,    *)
(* the scaled sum that picosynth_process clips differs from x by N + 1 at  *)
(* most, and the sample returned lies in [-0x7FFF, 0x7FFF].                *)
(***************************************************************************)
MixNearLevel ==
    (last.op = "process" /\ synth.num_voices > 1 /\ SameLevel) => NearLevel

\* The same of a call that evaluated every voice.
MixNearLevelAllVoices ==
    ( /\ last.op = "process"
      /\ synth.num_voices > 1
      /\ SameLevel
      /\ ran = 0..(synth.num_voices - 1) ) => NearLevel

\* 4 voices at 0x4000, all evaluated.
MixWitness ==
    /\ last.op = "process"
    /\ synth.num_voices = 4
    /\ ran = 0..3
    /\ \A vi \in 0..3 : VoiceOut(synth.voices[vi], 0) = 16384
    /\ mix_scale(SumRan(0), 4) = 16382

(***************************************************************************)
(* SpecTrack: one voice of 2 nodes, a low-pass filter with coefficient     *)
(* 0x7FFF and no gain, and a square oscillator of 8 samples a period.  The *)
(* filter reads the oscillator, declared before or after it, or a cell     *)
(* that holds -32768, 1 or 32767.  picosynth_process is called for every   *)
(* sample of a stream that does not end; a listener notes, for each filter *)
(* the call evaluates, the input it read and the number of calls of        *)
(* picosynth_process in a row, up to MaxHeld, in which it has read it.     *)
(***************************************************************************)
InitTrack == InitWith(1, 2)

\* The calls made besides picosynth_process.
MaxTrackCalls == 3

MaxHeld == 4

\* The input filter_update of node i read in the call of picosynth_process
\* that took the voice from v to w: the nodes up to i had committed their
\* outputs, the nodes behind it had not.
filter_input(v, w, i) ==
    LET ref == v.nodes[i].in
    IN  IF ref = NullRef THEN 0
        ELSE IF ref[1] = "node" /\ ref[2] > i THEN Deref(v, ref)
        ELSE Deref(w, ref)

NotHeard == [input |-> 0, held |-> 0]

\* picosynth_process, and what the listener notes of it.
ProcessHeard ==
    /\ ProcessCall(FALSE)
    /\ observed' =
           [on |-> TRUE,
            seen |-> [i \in 0..(synth.voices[0].n_nodes - 1) |->
                IF /\ 0 \in ran'
                   /\ i \in EvaluatedNodes(synth.voices[0])
                   /\ synth.voices[0].nodes[i].type = "LP"
                THEN LET x == filter_input(synth.voices[0],
                                           synth'.voices[0], i)
                         before == IF observed.on /\ last.op = "process"
                                   THEN observed.seen[i] ELSE NotHeard
                     IN  [input |-> x,
                          held |-> IF before.held > 0 /\ before.input = x
                                   THEN (IF before.held < MaxHeld
                                         THEN before.held + 1 ELSE MaxHeld)
                                   ELSE 1]
                ELSE NotHeard]]

NextTrack ==
    \/ /\ calls < MaxTrackCalls
       /\ \/ InitOsc(0, 0, NullRef, ExtRef(4096), "square")
          \/ \E in \in {NodeRef(0), ExtRef(Q15_MIN), ExtRef(1),
                         ExtRef(Q15_MAX)} :
               InitLp(0, 1, NullRef, in, Q15_MAX)
          \/ InitLp(0, 0, NullRef, NodeRef(1), Q15_MAX)
          \/ InitOsc(0, 1, NullRef, ExtRef(4096), "square")
          \/ SetOut(0, 1)
          \/ NoteOn(0, 60)
    \/ ProcessHeard

SpecTrack == InitTrack /\ [][NextTrack]_vars

\* The filters the claim speaks of: low-pass, no gain, coefficient at rest
\* at 0x7FFF.
TrackingFilters ==
    {i \in 0..(synth.voices[0].n_nodes - 1) :
        LET n == synth.voices[0].nodes[i]
        IN  /\ n.type = "LP"
            /\ n.gain = NullRef
            /\ n.coeff = Q15_MAX
            /\ n.coeff_target = Q15_MAX}

\* How far the out of node i is from the input the node read last.
TrackError(i) ==
    Abs(synth.voices[0].nodes[i].out - observed.seen[i].input)

InitTone == InitWith(1, 1)

\* The calls made besides picosynth_process.
MaxToneCalls == 2

\* PICOSYNTH_HZ_TO_FREQ(110): 326 at 11025 samples a second.
ToneInc == PICOSYNTH_HZ_TO_FREQ(110)

ToneNode == picosynth_init_osc(NullRef, ExtRef(ToneInc), "square")

\* picosynth_process, and what the listener notes of it.
ProcessTone ==
    /\ ProcessCall(FALSE)
    /\ observed' =
           IF last.op = "note_on"
           THEN [on |-> TRUE, samples |-> 1, flips |-> 0]
           ELSE IF last.op = "process" /\ observed.on
           THEN IF observed.samples < SAMPLE_RATE
                THEN [on |-> TRUE,
                      samples |-> observed.samples + 1,
                      flips |-> IF (ret < 0) # (ret' < 0)
                                THEN observed.flips + 1
                                ELSE observed.flips]
                ELSE observed
           ELSE NoObs

NextTone ==
    \/ /\ calls < MaxToneCalls
       /\ \/ InitOsc(0, 0, NullRef, ExtRef(ToneInc), "square")
          \/ NoteOn(0, 45)
    \/ ProcessTone

SpecTone == InitTone /\ [][NextTone]_vars

\* The listener has heard a full second of the tone.
ToneHeard ==
    /\ observed.on
    /\ observed.samples = SAMPLE_RATE
    /\ last.op = "process"
    /\ synth.num_voices = 1
    /\ synth.voices[0].out_idx = 0
    /\ synth.voices[0].nodes[0] # NodeZero
    /\ [synth.voices[0].nodes[0] EXCEPT !.state = 0, !.out = 0] = ToneNode

(***************************************************************************)
(* C27: a voice whose output is a square oscillator with no gain and the   *)
(* phase increment of 110 Hz changes the sign of the samples returned by   *)
(* picosynth_process between 218 and 222 times over the SAMPLE_RATE        *)
(* samples that follow a note-on.                                          *)
(***************************************************************************)
ToneSignChanges == ToneHeard => observed.flips \in 218..222

ToneWitness == ToneHeard /\ observed.flips = 219

(***************************************************************************)
(* SpecEnv: one voice of 1 node, an envelope.  Its attack lasts 35 samples *)
(* (more than a block), 2 samples, or 1 sample with a rate that is the     *)
(* peak or the largest int32_t; its sustain is positive, 0, the peak,      *)
(* negative, or the most negative Q15 value; it decays by halves or by a   *)
(* coefficient found by the search.  The calls other than                  *)
(* picosynth_process are bounded in number; picosynth_process is called    *)
(* for every sample of a stream that does not end.                         *)
(***************************************************************************)
EnvShapes ==
    { <<15000, 60000, 16383, 100000>>,
      <<ENVELOPE_PEAK, 60000, 0, 100000>>,
      <<INT32_MAX, 20000, -16384, 100000>>,
      <<300000, 60000, Q15_MAX, 100000>>,
      <<300000, 60000, Q15_MIN, 100000>> }

InitEnvelope == InitWith(1, 1)

\* The calls made besides picosynth_process.
MaxEnvCalls == 3

NextEnvelope ==
    \/ /\ calls < MaxEnvCalls
       /\ \/ \E e \in EnvShapes : InitEnv(0, 0, NullRef, e[1], e[2], e[3], e[4])
          \/ NoteOn(0, 60)
    \/ Process(FALSE)

SpecEnv == InitEnvelope /\ [][NextEnvelope]_vars /\ WF_vars(Process(FALSE))

(***************************************************************************)
(* C28: while the gate is 1, every picosynth_process adds attack to the    *)
(* value of an evaluated envelope with attack > 0 that is not in decay     *)
(* mode, as long as the sum stays under 0x7FFF * 16; the call on which it  *)
(* does not sets the value to 0x7FFF * 16, sets the decay-mode bit and     *)
(* leaves block_counter 0.  While the gate stays 1 the decay-mode bit is   *)
(* cleared by nothing but a note-on or an initializer.                     *)
(***************************************************************************)
AttackStep ==
    \A vi \in 0..(synth.num_voices - 1) :
        \A i \in EnvNodes(vi) :
            LET n == synth.voices[vi].nodes[i]
                m == synth'.voices[vi].nodes[i]
                sum == EnvValue(n.state) + n.attack
            IN  /\ ( /\ last'.op = "process"
                     /\ synth.voices[vi].gate = 1
                     /\ Evaluated(vi, i)
                     /\ n.attack > 0
                     /\ ~EnvMode(n.state) ) =>
                       IF sum < ENVELOPE_PEAK
                       THEN /\ EnvValue(m.state) = sum
                            /\ ~EnvMode(m.state)
                       ELSE /\ EnvValue(m.state) = ENVELOPE_PEAK
                            /\ EnvMode(m.state)
                            /\ m.block_counter = 0
                /\ ( /\ synth.voices[vi].gate = 1
                     /\ synth'.voices[vi].gate = 1
                     /\ EnvMode(n.state)
                     /\ ~EnvMode(m.state) ) =>
                       last'.op \in {"note_on"} \cup DOMAIN InitType

AttackToPeak == [][AttackStep]_vars

\* The attack of 15000 a sample has come to its 35th call, in the second
\* block, and has been clamped to the peak from 34 * 15000 + 15000.
AttackWitness ==
    /\ last.op = "process"
    /\ synth.voices[0].gate = 1
    /\ synth.voices[0].nodes[0].type = "ENV"
    /\ synth.voices[0].nodes[0].attack = 15000
    /\ synth.voices[0].nodes[0].state = EnvPack(ENVELOPE_PEAK, TRUE)
    /\ synth.voices[0].nodes[0].block_counter = 0
    /\ synth.voices[0].nodes[0].block_rate = 15000

\* |sustain| * 16, the level the claim names, in the integers.
SustainLevel(n) == (IF n.sustain < 0 THEN -n.sustain ELSE n.sustain) * 16

\* The envelope of the voice of SpecEnv is in decay mode with the gate at 1.
Decaying ==
    /\ synth.voices[0].gate = 1
    /\ synth.voices[0].nodes[0].type = "ENV"
    /\ EnvMode(synth.voices[0].nodes[0].state)

AtSustain ==
    /\ Decaying
    /\ NodeValue(0, 0) = SustainLevel(synth.voices[0].nodes[0])

\* A picosynth_process on an evaluated envelope in decay mode, gate at 1:
\* the value does not rise, and it stays at |sustain| * 16 once there.
DecayStep ==
    \A vi \in 0..(synth.num_voices - 1) :
        \A i \in EnvNodes(vi) :
            LET n == synth.voices[vi].nodes[i]
                m == synth'.voices[vi].nodes[i]
            IN  ( /\ last'.op = "process"
                  /\ synth.voices[vi].gate = 1
                  /\ Evaluated(vi, i)
                  /\ EnvMode(n.state) ) =>
                    /\ EnvValue(m.state) <= EnvValue(n.state)
                    /\ EnvValue(n.state) = SustainLevel(n) =>
                            EnvValue(m.state) = SustainLevel(n)

\* In decay mode with the gate at 1 the value is not below |sustain| * 16.
DecayFloor ==
    \A vi \in 0..(synth.num_voices - 1) :
        \A i \in EnvNodes(vi) :
            ( /\ synth.voices[vi].gate = 1
              /\ EnvMode(synth.voices[vi].nodes[i].state) ) =>
                NodeValue(vi, i) >= SustainLevel(synth.voices[vi].nodes[i])

(***************************************************************************)
(* C29: while the gate is 1 and the envelope is in decay mode, its value   *)
(* does not rise from one picosynth_process to the next, is never below    *)
(* |sustain| * 16, comes to exactly |sustain| * 16 after finitely many     *)
(* calls and stays there until a note-off or a note-on.                    *)
(***************************************************************************)
DecayToSustain ==
    /\ [][DecayStep]_vars
    /\ []DecayFloor
    /\ Decaying ~> (AtSustain \/ ~Decaying)

(***************************************************************************)
(* C30: in every state, the value field of an envelope initialised with    *)
(* attack >= 0 and any Q15 sustain, -32768 among them, lies between 0 and  *)
(* 0x7FFF * 16.                                                            *)
(***************************************************************************)
EnvValueInRange ==
    \A vi \in 0..(synth.num_voices - 1) :
        \A i \in EnvNodes(vi) :
            ( /\ synth.voices[vi].nodes[i].attack >= 0
              /\ synth.voices[vi].nodes[i].sustain \in Q15 ) =>
                NodeValue(vi, i) \in 0..ENVELOPE_PEAK

(***************************************************************************)
(* SpecGap: one voice of 3 nodes whose slot 1 may be left unused while     *)
(* slot 2 holds an envelope or a low-pass that reads a cell at full scale; *)
(* either node would move if it were evaluated.  The output is node 0 or   *)
(* node 2.                                                                 *)
(***************************************************************************)
InitGap == InitWith(1, 3)

NextGap ==
    \/ \E i \in {0, 1} : InitOsc(0, i, NullRef, FreqRef, "saw")
    \/ InitEnv(0, 2, NullRef, EnvFast[1], EnvFast[2], EnvFast[3], EnvFast[4])
    \/ InitLp(0, 2, NullRef, ExtRef(Q15_MAX), Q15_MAX)
    \/ \E idx \in {0, 2} : SetOut(0, idx)
    \/ NoteOn(0, 60)
    \/ NoteOff(0)
    \/ Process(TRUE)

SpecGap == InitGap /\ [][NextGap]_vars

\* The first slot of type NONE of the voice, n_nodes if it has none.
FirstNone(v) ==
    IF \A i \in 0..(v.n_nodes - 1) : v.nodes[i].type # "NONE"
    THEN v.n_nodes
    ELSE CHOOSE i \in 0..(v.n_nodes - 1) :
             /\ v.nodes[i].type = "NONE"
             /\ \A j \in 0..(i - 1) : v.nodes[j].type # "NONE"

(***************************************************************************)
(* C31: picosynth_process evaluates only the nodes before the first slot   *)
(* of type NONE of a voice: it leaves every node at or after that slot as  *)
(* it was, its out and its state included, also when the node is           *)
(* initialised, has its bit in node_usage_mask or is the output node.      *)
(***************************************************************************)
GapStep ==
    last'.op = "process" =>
        \A vi \in 0..(synth.num_voices - 1) :
            /\ \A i \in EvaluatedNodes(synth.voices[vi]) :
                   i < FirstNone(synth.voices[vi])
            /\ \A i \in FirstNone(synth.voices[vi])
                         ..(synth.voices[vi].n_nodes - 1) :
                   synth'.voices[vi].nodes[i] = synth.voices[vi].nodes[i]

StopsAtFirstNone == [][GapStep]_vars

\* The voice sounds, its oscillator at node 0 has advanced, and the envelope
\* at node 2, behind the unused slot 1, is the output node, has its bit in
\* the mask, and has not risen.
StopsAtFirstNoneWitness ==
    /\ last.op = "process"
    /\ ran = {0}
    /\ synth.voices[0].gate = 1
    /\ synth.voices[0].nodes[0].type = "OSC"
    /\ synth.voices[0].nodes[0].state # 0
    /\ synth.voices[0].nodes[1].type = "NONE"
    /\ synth.voices[0].nodes[2].type = "ENV"
    /\ synth.voices[0].nodes[2].attack > 0
    /\ synth.voices[0].nodes[2].state = 0
    /\ synth.voices[0].out_idx = 2
    /\ TestBit(synth.voices[0].node_usage_mask, 2)

\* The sum of the outputs, after the call, of the voices vi and above whose
\* enable bit was set before it or that have no such bit.
RECURSIVE SumEnabled(_, _, _)
SumEnabled(mask, after, vi) ==
    IF vi >= after.num_voices THEN 0
    ELSE (IF vi >= 16 \/ TestBit(mask, vi)
          THEN VoiceOut(after.voices[vi], 0) ELSE 0)
         + SumEnabled(mask, after, vi + 1)

(***************************************************************************)
(* C32: picosynth_process changes nothing of a voice below 16 whose enable *)
(* bit is clear, no field of any of its nodes, and the voice adds nothing  *)
(* to the mix, whatever its output node holds: the sample returned is the  *)
(* scaled and clipped sum of the other voices.                             *)
(***************************************************************************)
SkipStep ==
    last'.op = "process" =>
        /\ \A vi \in 0..(synth.num_voices - 1) :
              (vi < 16 /\ ~TestBit(synth.voice_enable_mask, vi)) =>
                  /\ synth'.voices[vi] = synth.voices[vi]
                  /\ ~TestBit(synth'.voice_enable_mask, vi)
                  /\ vi \notin ran'
        /\ ret' = MixDown(SumEnabled(synth.voice_enable_mask, synth', 0),
                          synth.num_voices)

DisabledVoiceSkipped == [][SkipStep]_vars

\* Voice 1 was released and switched off with its oscillator's output at
\* full scale, and the call that followed evaluated nothing and returned 0.
DisabledVoiceWitness ==
    /\ last.op = "process"
    /\ ran = {}
    /\ ret = 0
    /\ ~TestBit(synth.voice_enable_mask, 1)
    /\ synth.voices[1].nodes[0].type = "OSC"
    /\ synth.voices[1].freq # 0
    /\ VoiceOut(synth.voices[1], 0) # 0

(***************************************************************************)
(* C33: an enabled voice below 16 whose gate is 0 and whose envelope       *)
(* nodes, evaluated or not, all hold the value 0 (a voice without envelope *)
(* among them) loses its enable bit on the picosynth_process that follows; *)
(* that call still evaluates the voice and adds the output of its output   *)
(* node to the mix.                                                        *)
(***************************************************************************)
SilentOffStep ==
    last'.op = "process" =>
        \A vi \in 0..(synth.num_voices - 1) :
            ( /\ vi < 16
              /\ TestBit(synth.voice_enable_mask, vi)
              /\ synth.voices[vi].gate = 0
              /\ \A i \in EnvNodes(vi) : NodeValue(vi, i) = 0 ) =>
                /\ ~TestBit(synth'.voice_enable_mask, vi)
                /\ vi \in ran'
                /\ \A i \in EvaluatedNodes(synth.voices[vi]) :
                       synth.voices[vi].nodes[i].type = "OSC" =>
                           synth'.voices[vi].nodes[i].state =
                               osc_update(synth.voices[vi],
                                          synth.voices[vi].nodes[i]).state
                /\ ret' = MixDown(SumEnabled(synth.voice_enable_mask,
                                             synth', 0), synth.num_voices)

SilentVoiceSwitchedOff == [][SilentOffStep]_vars

\* Voice 1, which has no envelope, was released; the call that switched it
\* off has advanced its oscillator and returned its output in the mix.
SilentVoiceWitness ==
    /\ last.op = "process"
    /\ ran = {1}
    /\ synth.voices[1].gate = 0
    /\ EnvNodes(1) = {}
    /\ ~TestBit(synth.voice_enable_mask, 1)
    /\ synth.voices[1].nodes[0].type = "OSC"
    /\ synth.voices[1].nodes[0].state # 0
    /\ VoiceOut(synth.voices[1], 0) # 0
    /\ ret # 0

(***************************************************************************)
(* SpecWire: one voice of 3 nodes that is wired and wired again, by every  *)
(* initializer and by the assignment of a detune, between calls of         *)
(* voice_set_out with indices inside and outside the voice, note-on,       *)
(* note-off, filter_set_coeff and picosynth_process.                       *)
(***************************************************************************)
InitWire == InitWith(1, 3)

NextWire ==
    \/ InitOsc(0, 0, NullRef, FreqRef, "square")
    \/ \E in \in {NodeRef(0), NodeRef(2)} : InitLp(0, 1, NullRef, in, 16384)
    \/ InitHp(0, 2, NullRef, NodeRef(0), 16384)
    \/ InitEnv(0, 2, NullRef, EnvFast[1], EnvFast[2], EnvFast[3], EnvFast[4])
    \/ InitMix(0, 2, NullRef, NodeRef(0), NodeRef(1), NullRef)
    \/ SetDetune(0, 0, NodeRef(1))
    \/ FilterSetCoeff(0, 1, 0)
    \/ \E idx \in {0, 1, 2, 3, 255} : SetOut(0, idx)
    \/ NoteOn(0, 60)
    \/ NoteOff(0)
    \/ Process(TRUE)

SpecWire == InitWire /\ [][NextWire]_vars

(***************************************************************************)
(* C34: node_usage_mask and out_idx of a voice change only in a            *)
(* voice_set_out of that voice with an index below n_nodes: the            *)
(* initializers, the assignment of a detune, note-on, note-off,            *)
(* filter_set_coeff and picosynth_process leave both as they are.          *)
(***************************************************************************)
WiringStep ==
    \A vi \in 0..(synth.num_voices - 1) :
        ( \/ synth'.voices[vi].node_usage_mask
                 # synth.voices[vi].node_usage_mask
          \/ synth'.voices[vi].out_idx # synth.voices[vi].out_idx ) =>
            /\ last'.op = "voice_set_out"
            /\ last'.voice = vi
            /\ last'.arg < synth.voices[vi].n_nodes

MaskOnlyBySetOut == [][WiringStep]_vars

\* The low-pass at node 1, the output node, was wired to the mixer at node 2
\* after the voice_set_out that gave the mask 0b011: the mask is not the
\* one a voice_set_out would compute now, and the samples are drawn with it.
MaskOnlyBySetOutWitness ==
    /\ last.op = "process"
    /\ ran = {0}
    /\ 0 \in stale
    /\ synth.voices[0].out_idx = 1
    /\ synth.voices[0].nodes[1].type = "LP"
    /\ synth.voices[0].nodes[1].in = NodeRef(2)
    /\ synth.voices[0].nodes[2].type = "MIX"
    /\ synth.voices[0].node_usage_mask = 3
    /\ picosynth_voice_set_out(synth.voices[0], 1).node_usage_mask = 7

(***************************************************************************)
(* SpecPair: two voices of 2 nodes, each an oscillator into a low-pass.    *)
(* The oscillators play a square or the noise of the generator that all    *)
(* voices share.                                                           *)
(***************************************************************************)
InitPair == InitWith(2, 2)

NextPair ==
    \/ \E vi \in {0, 1}, wave \in {"square", "noise"} :
         InitOsc(vi, 0, NullRef, FreqRef, wave)
    \/ \E vi \in {0, 1} : InitLp(vi, 1, NullRef, NodeRef(0), 16384)
    \/ \E vi \in {0, 1} : SetOut(vi, 1)
    \/ \E vi \in {0, 1}, note \in {60, 127} : NoteOn(vi, note)
    \/ \E vi \in {0, 1} : NoteOff(vi)
    \/ Process(TRUE)

SpecPair == InitPair /\ [][NextPair]_vars

\* No oscillator plays the noise.
NoNoise ==
    \A vi \in 0..(synth.num_voices - 1) :
        \A i \in 0..(synth.voices[vi].n_nodes - 1) :
            ~( /\ synth.voices[vi].nodes[i].type = "OSC"
               /\ synth.voices[vi].nodes[i].wave = "noise" )

(***************************************************************************)
(* C35: when no oscillator plays the noise (no node of the model refers to *)
(* another voice), a note-on, note-off or voice_set_out of voice A leaves  *)
(* every other voice B and its enable bit as they are, and                 *)
(* picosynth_process does to voice B what the evaluation of B alone does:  *)
(* nothing if B is passed over, and otherwise the two passes over B, which *)
(* clear the bit of B if B is released and silent.                         *)
(***************************************************************************)
PairStep ==
    NoNoise =>
        \A b \in 0..(synth.num_voices - 1) :
            LET v == synth.voices[b]
                w == synth'.voices[b]
                on == TestBit(synth.voice_enable_mask, b)
                on1 == TestBit(synth'.voice_enable_mask, b)
            IN  /\ ( /\ last'.op \in {"note_on", "note_off", "voice_set_out"}
                     /\ last'.voice # b ) => (w = v /\ on1 = on)
                /\ last'.op = "process" =>
                       IF b < 16 /\ ~on
                       THEN w = v /\ ~on1
                       ELSE /\ w = voice_eval(v, lfsr_seed).v
                            /\ on1 = ~(b < 16 /\ w.gate = 0
                                         /\ \A i \in 0..(w.n_nodes - 1) :
                                                ~( /\ w.nodes[i].type = "ENV"
                                                   /\ EnvValue(w.nodes[i].state)
                                                        # 0 ))

VoicesIndependent == [][PairStep]_vars

\* Voice 0 has been struck again while voice 1 sounds: voice 1 keeps the
\* phase and the filter charge it had, voice 0 starts from 0.
VoicesIndependentWitness ==
    /\ NoNoise
    /\ last = Call("note_on", 0, 127)
    /\ synth.voices[0].nodes[0].type = "OSC"
    /\ synth.voices[0].nodes[0].state = 0
    /\ synth.voices[0].note = 127
    /\ synth.voices[1].gate = 1
    /\ synth.voices[1].note = 60
    /\ synth.voices[1].nodes[0].type = "OSC"
    /\ synth.voices[1].nodes[0].state # 0
    /\ synth.voices[1].nodes[0].out # 0
    /\ TestBit(synth.voice_enable_mask, 1)

(***************************************************************************)
(* SpecAhead: one voice of 2 nodes, a sawtooth or square oscillator and a  *)
(* high-pass that reads it, in either order: with the high-pass at node 0  *)
(* its input is a node declared after it.                                  *)
(***************************************************************************)
AheadCoeffs == {Q15_MIN, -1, 0, 16384, Q15_MAX}

InitAhead == InitWith(1, 2)

NextAhead ==
    \/ \E i \in {0, 1}, wave \in {"saw", "square"} :
         InitOsc(0, i, NullRef, FreqRef, wave)
    \/ \E i \in {0, 1}, coeff \in AheadCoeffs :
         InitHp(0, i, NullRef, NodeRef(1 - i), coeff)
    \/ \E i \in {0, 1} : FilterSetCoeff(0, i, 0)
    \/ \E idx \in {0, 1} : SetOut(0, idx)
    \/ NoteOn(0, 60)
    \/ NoteOff(0)
    \/ Process(TRUE)

SpecAhead == InitAhead /\ [][NextAhead]_vars

\* The high-pass nodes of the voice that have no gain and read a node
\* declared after them.
HpAhead(vi) ==
    {i \in 0..(synth.voices[vi].n_nodes - 1) :
        /\ synth.voices[vi].nodes[i].type = "HP"
        /\ synth.voices[vi].nodes[i].gain = NullRef
        /\ synth.voices[vi].nodes[i].in \in
               {NodeRef(j) : j \in (i + 1)..(synth.voices[vi].n_nodes - 1)}}

(***************************************************************************)
(* C36: a high-pass without gain that reads a node of higher index has an  *)
(* accumulator of 0 from note-on on, whatever its coefficient, and on      *)
(* every picosynth_process that evaluates it its out becomes the output    *)
(* its input node had committed on the call before.                        *)
(***************************************************************************)
HpAheadStep ==
    \A vi \in 0..(synth.num_voices - 1) :
        \A i \in HpAhead(vi) :
            LET n == synth.voices[vi].nodes[i]
                m == synth'.voices[vi].nodes[i]
            IN  /\ vi \in noted => n.accum = 0
                /\ (last'.op = "process" /\ Evaluated(vi, i)) =>
                       /\ m.accum = 0
                       /\ m.out = synth.voices[vi].nodes[n.in[2]].out

HpAheadPassesThrough == [][HpAheadStep]_vars

\* The high-pass at node 0, with the coefficient at full scale, has put out
\* the nonzero sample that the oscillator at node 1 committed one call
\* earlier, and the oscillator has moved on to another.
HpAheadWitness ==
    /\ last.op = "process"
    /\ ran = {0}
    /\ 0 \in HpAhead(0)
    /\ 0 \in EvaluatedNodes(synth.voices[0])
    /\ synth.voices[0].nodes[0].coeff = Q15_MAX
    /\ synth.voices[0].nodes[0].accum = 0
    /\ synth.voices[0].nodes[0].out # 0
    /\ synth.voices[0].nodes[1].type = "OSC"
    /\ synth.voices[0].nodes[1].out # synth.voices[0].nodes[0].out

(***************************************************************************)
(* SpecScale: the tail of picosynth_process on its own, for a synthesizer  *)
(* of 1 to 255 voices (operand) of which some have been evaluated, all     *)
(* with the same output.  result records the sum of the voices and the     *)
(* value handed to soft_clip, ret the sample returned.                     *)
(***************************************************************************)
VoiceCounts == 1..255

InitScale ==
    /\ synth = picosynth_create(0, 0)
    /\ lfsr_seed = lfsr_seed_init
    /\ ret = 0
    /\ last = Call("create", 0, 0)
    /\ ran = {}
    /\ noted = {}
    /\ tracked = {}
    /\ stale = {}
    /\ calls = 0
    /\ tick = 0
    /\ operand \in VoiceCounts
    /\ result = NoVal
    /\ heap = picosynth_create_alloc(0, 0, 0).blocks
    /\ observed = NoObs

\* The numbers of voices summed that are tried for a synthesizer of n.
SummedCounts(n) == {0, 1, n \div 2, n - 1, n}

\* m of the operand voices were summed, each with the output x.
MixOf(m, x) ==
    /\ result' = [by |-> m * x, is |-> mix_scale(m * x, operand),
                  done |-> TRUE]
    /\ ret' = MixDown(m * x, operand)
    /\ UNCHANGED <<synth, lfsr_seed, last, ran, noted, tracked, stale,
                   calls, tick, operand, heap, observed>>

NextScale == \E m \in SummedCounts(operand), x \in Levels : MixOf(m, x)

SpecScale == InitScale /\ [][NextScale]_vars

(***************************************************************************)
(* C37: for every number of voices from 1 to 255 and whatever their        *)
(* outputs, the value handed to soft_clip lies in [-32768, 32767], so its  *)
(* magnitude shifted right by 3 is at most 4096 and under the clamp at     *)
(* 0x7FFF / 4; it is the sum scaled by 0x7FFF / num_voices, however many   *)
(* voices were summed.                                                     *)
(***************************************************************************)
ScaledInQ15 ==
    result.done =>
        /\ result.is \in Q15_MIN..Q15_MAX
        /\ Abs(result.is) \div 8 <= 4096
        /\ Abs(result.is) \div 8 <= Q15_MAX \div 4
        /\ result.is = IF operand > 1
                       THEN (result.by * (Q15_MAX \div operand)) \div 32768
                       ELSE result.by
        /\ ret \in Q15_MIN..Q15_MAX

\* 254 of 255 voices at -32768: the gain is 128 = 0x7FFF / 255 and the
\* value handed to soft_clip is -254 * 128.
ScaledWitness ==
    /\ result.done
    /\ operand = 255
    /\ result.by = 254 * Q15_MIN
    /\ result.is = -32512

(***************************************************************************)
(* SpecOsc: one voice of 2 oscillators.  Node 0 plays a sawtooth or the    *)
(* noise with the voice's frequency, an increment of 0 or one of -1, and   *)
(* may be detuned by a cell at -32768 or by the output of node 1; node 1   *)
(* has no frequency, takes its gain from node 0 and may be detuned by it.  *)
(***************************************************************************)
InitOscs == InitWith(1, 2)

NextOscs ==
    \/ \E freq \in {FreqRef, ExtRef(0), ExtRef(-1)}, wave \in {"saw", "noise"} :
         InitOsc(0, 0, NullRef, freq, wave)
    \/ InitOsc(0, 1, NodeRef(0), NullRef, "square")
    \/ \E ref \in {ExtRef(Q15_MIN), NodeRef(1)} : SetDetune(0, 0, ref)
    \/ SetDetune(0, 1, NodeRef(0))
    \/ NoteOn(0, 60)
    \/ Process(TRUE)

SpecOsc == InitOscs /\ [][NextOscs]_vars

\* What node i of voice vi reads through ref when pass 2 updates it: a node
\* up to i has committed its output of this call, a later one has not.
RefAtUpdate(vi, i, ref) ==
    IF ref = NullRef THEN 0
    ELSE IF ref[1] = "node"
    THEN IF ref[2] <= i THEN synth'.voices[vi].nodes[ref[2]].out
         ELSE synth.voices[vi].nodes[ref[2]].out
    ELSE Deref(synth.voices[vi], ref)

\* The oscillators of the voice.
OscNodes(vi) ==
    {i \in 0..(synth.voices[vi].n_nodes - 1) :
        synth.voices[vi].nodes[i].type = "OSC"}

\* The phase of every evaluated oscillator after picosynth_process.
PhaseStep ==
    last'.op = "process" =>
        \A vi \in 0..(synth.num_voices - 1) :
            \A i \in OscNodes(vi) :
                LET n == synth.voices[vi].nodes[i]
                    m == synth'.voices[vi].nodes[i]
                IN  Evaluated(vi, i) =>
                        /\ m.state \in 0..Q15_MAX
                        /\ m.state = (n.state + RefAtUpdate(vi, i, n.freq)
                                         + RefAtUpdate(vi, i, n.detune)) % 32768

\* Node i of voice vi is an oscillator without detune whose increment is 0,
\* evaluated by this picosynth_process and by the call before, which was
\* one too.
StandingOsc(vi, i) ==
    /\ last.op = "process"
    /\ last'.op = "process"
    /\ vi \in ran
    /\ Evaluated(vi, i)
    /\ synth.voices[vi].nodes[i].detune = NullRef
    /\ RefAtUpdate(vi, i, synth.voices[vi].nodes[i].freq) = 0

Standing(vi, i) ==
    /\ synth'.voices[vi].nodes[i].state = synth.voices[vi].nodes[i].state
    /\ synth'.voices[vi].nodes[i].out = synth.voices[vi].nodes[i].out

(***************************************************************************)
(* C38: after picosynth_process the state of every evaluated oscillator is *)
(* in [0, 0x7FFF] and is (the state before + *freq + *detune) mod 0x8000,  *)
(* where an absent reference counts 0 and a negative increment wraps       *)
(* downward; with an increment of 0 and no detune the state and the output *)
(* of the oscillator are the same on every sample.                         *)
(***************************************************************************)
OscPhaseStep ==
    /\ PhaseStep
    /\ \A vi \in 0..(synth.num_voices - 1) :
          \A i \in OscNodes(vi) : StandingOsc(vi, i) => Standing(vi, i)

OscPhase == [][OscPhaseStep]_vars

\* The same, the output being that of an oscillator without gain whose wave
\* is not the noise.
OscPhaseOfWaveStep ==
    /\ PhaseStep
    /\ \A vi \in 0..(synth.num_voices - 1) :
          \A i \in OscNodes(vi) :
              StandingOsc(vi, i) =>
                  /\ synth'.voices[vi].nodes[i].state
                         = synth.voices[vi].nodes[i].state
                  /\ ( /\ synth.voices[vi].nodes[i].wave # "noise"
                       /\ synth.voices[vi].nodes[i].gain = NullRef ) =>
                         Standing(vi, i)

OscPhaseOfWave == [][OscPhaseOfWaveStep]_vars

\* The sawtooth at node 0 has an increment of 0 and stands at phase 0 after
\* three samples, the last two of them the same and not 0.
OscPhaseWitness ==
    /\ last.op = "process"
    /\ calls = 5
    /\ ran = {0}
    /\ synth.voices[0].nodes[0].type = "OSC"
    /\ synth.voices[0].nodes[0].wave = "saw"
    /\ synth.voices[0].nodes[0].gain = NullRef
    /\ synth.voices[0].nodes[0].freq = ExtRef(0)
    /\ synth.voices[0].nodes[0].detune = NullRef
    /\ synth.voices[0].nodes[0].state = 0
    /\ synth.voices[0].nodes[0].out = picosynth_wave_saw(0)
    /\ synth.voices[0].nodes[0].out # 0
    /\ synth.voices[0].nodes[1].type = "NONE"

(***************************************************************************)
(* SpecKeys: one voice struck with one note after another, the note any    *)
(* uint8_t.                                                                *)
(***************************************************************************)
KeyNotes == 0..255

InitKeys == InitWith(1, 1)

NextKeys == \E note \in KeyNotes : NoteOn(0, note)

SpecKeys == InitKeys /\ [][NextKeys]_vars

(***************************************************************************)
(* C39: midi_to_freq gives every note from 120 to 255 the value of note    *)
(* 119; over the notes 0..127 it does not decrease as the note rises, and  *)
(* every value lies in [0, 0x7FFF].                                        *)
(***************************************************************************)
KeyStep ==
    \A vi \in 0..(synth.num_voices - 1) :
        LET v == synth.voices[vi]
            w == synth'.voices[vi]
        IN  (last'.op = "note_on" /\ last'.voice = vi) =>
                /\ w.note = last'.arg
                /\ w.freq \in 0..Q15_MAX
                /\ (vi \in noted /\ v.note = 119 /\ w.note \in 120..255) =>
                       w.freq = v.freq
                /\ (vi \in noted /\ v.note <= w.note /\ w.note <= 127) =>
                       v.freq <= w.freq

MidiMonotone == [][KeyStep]_vars

\* Note 255 has been struck and the voice holds the increment of note 119,
\* which is saturated at 0x7FFF.
MidiMonotoneWitness ==
    /\ last = Call("note_on", 0, 255)
    /\ synth.voices[0].note = 255
    /\ synth.voices[0].freq = Q15_MAX
    /\ synth.voices[0].freq = q15_sat(2 * octave8_freq[12])

(***************************************************************************)
(* SpecCoeff: env_calc_exp_coeff on its own.  operand is the target ratio, *)
(* any q15_t out of a grid that holds the two clamps and their neighbours; *)
(* result records the number of samples and the coefficient returned.      *)
(***************************************************************************)
TargetRatios ==
    {t \in Q15 : t % 251 = 0}
        \cup {Q15_MIN, 16384, Q15_MAX}
        \cup {PICOSYNTH_ENV_MIN_RATIO_Q15 + d : d \in -1..1}
        \cup {PICOSYNTH_ENV_MAX_RATIO_Q15 + d : d \in -1..1}

\* The largest number of samples the engine asks for is the peak, the span
\* of a decay or release at a rate of 1.
SampleCounts == {0, 1, 9, 10, 11, 32, 110, 1000, 65536, ENVELOPE_PEAK}

InitCoeff ==
    /\ synth = picosynth_create(0, 0)
    /\ lfsr_seed = lfsr_seed_init
    /\ ret = 0
    /\ last = Call("create", 0, 0)
    /\ ran = {}
    /\ noted = {}
    /\ tracked = {}
    /\ stale = {}
    /\ calls = 0
    /\ tick = 0
    /\ operand \in TargetRatios
    /\ result = NoVal
    /\ heap = picosynth_create_alloc(0, 0, 0).blocks
    /\ observed = NoObs

\* result = env_calc_exp_coeff(samples, operand)
ExpCoeffOf(samples) ==
    /\ result' = [by |-> samples, is |-> env_calc_exp_coeff(samples, operand),
                  done |-> TRUE]
    /\ UNCHANGED <<synth, lfsr_seed, ret, last, ran, noted, tracked, stale,
                   calls, tick, operand, heap, observed>>

NextCoeff == \E samples \in SampleCounts : ExpCoeffOf(samples)

SpecCoeff == InitCoeff /\ [][NextCoeff]_vars

\* The target ratio clamped to [MIN_RATIO, MAX_RATIO].
ClampedRatio(t) ==
    IF t < PICOSYNTH_ENV_MIN_RATIO_Q15 THEN PICOSYNTH_ENV_MIN_RATIO_Q15
    ELSE IF t > PICOSYNTH_ENV_MAX_RATIO_Q15 THEN PICOSYNTH_ENV_MAX_RATIO_Q15
    ELSE t

\* c is the better of the candidates low and low + 1 for n samples and the
\* target t, low on a tie, and the two bracket the target.
BetterOf(low, c, n, t) ==
    /\ pow_q15(low, n) <= t
    /\ low + 1 = Q15_MAX \/ pow_q15(low + 1, n) > t
    /\ c = IF Abs(t - pow_q15(low, n)) <= Abs(pow_q15(low + 1, n) - t)
           THEN low ELSE low + 1

(***************************************************************************)
(* C40: env_calc_exp_coeff returns 0x3FFF for fewer than 10 samples.       *)
(* Otherwise, the target clamped to [MIN_RATIO, MAX_RATIO], it returns a c *)
(* in [0, 0x7FFF] that is one of two neighbours low and low + 1 with       *)
(* pow_q15(low, samples) <= target and, unless low + 1 is 0x7FFF,          *)
(* pow_q15(low + 1, samples) > target: the one whose power is nearer to    *)
(* the target, low if both are as near.                                    *)
(***************************************************************************)
ExpCoeffBrackets ==
    result.done =>
        IF result.by < 10 THEN result.is = 16383
        ELSE /\ result.is \in 0..Q15_MAX
             /\ \E low \in {result.is - 1, result.is} \cap 0..(Q15_MAX - 1) :
                    BetterOf(low, result.is, result.by, ClampedRatio(operand))

\* For 32 samples and a ratio of one half the search ends between 32066,
\* whose power is 16378, and 32067, whose power is 16387 and nearer.
ExpCoeffWitness ==
    /\ result.done
    /\ result.by = 32
    /\ operand = 16384
    /\ result.is = 32067
    /\ pow_q15(32066, 32) = 16378
    /\ pow_q15(32067, 32) = 16387

====
